---- MODULE Spec2Model ----
(***************************************************************************)
(* Document state and version store of bodega (package bodega.soda).       *)
(*                                                                         *)
(* The object store is a map from keys to objects (content + tag map).     *)
(* Every operation of DocumentStateManager and DocumentStore is a small    *)
(* state machine run by a caller: one step per object-store or cache       *)
(* call, so that the states between two calls of one operation are         *)
(* states of the model.                                                    *)
(***************************************************************************)
EXTENDS Integers, Sequences, FiniteSets, TLC

(* ------------------------------ bounds -------------------------------- *)

\* highest version number a document gets in the model
MaxVersion == 2
\* last instant of the model clock
MaxTime == 1
\* cache lookups counted by hit_count + miss_count
MaxLookups == 2

(* ----------------------------- vocabulary ----------------------------- *)

Docs == {"d1"}
Callers == {"c1", "c2"}
\* version n stands for the version string "v{n}" of the key layout
\* processed/{doc_id}/v{n}/output.md|json, the only directories the version
\* scans parse; int("v{n}"[1:]) = n
Versions == 1..MaxVersion

\* class DocumentState
RAW == "raw"
PROCESSING == "processing"
PROCESSED == "processed"
FAILED == "failed"
DRAFT == "draft"
FINAL == "final"
ARCHIVED == "archived"
DocumentState == {RAW, PROCESSING, PROCESSED, FAILED, DRAFT, FINAL, ARCHIVED}

\* Python's None where a DocumentState is expected
NoState == "None"
\* a version argument or result that is None
NoVersion == 0

VALID_TRANSITIONS_with_publish ==
    { <<RAW, PROCESSING, FALSE>>,
      <<PROCESSING, PROCESSED, FALSE>>,
      <<PROCESSING, FAILED, FALSE>>,
      <<FAILED, RAW, FALSE>>,
      <<FAILED, PROCESSING, FALSE>>,
      <<DRAFT, FINAL, TRUE>>,
      <<FINAL, ARCHIVED, FALSE>>,
      <<ARCHIVED, FINAL, TRUE>>,
      <<PROCESSED, RAW, FALSE>>,
      <<PROCESSED, DRAFT, FALSE>> }

\* VALID_TRANSITIONS: <<from_state, to_state, requires_approval>>
VALID_TRANSITIONS ==
    { <<RAW, PROCESSING, FALSE>>,
      <<PROCESSING, PROCESSED, FALSE>>,
      <<PROCESSING, FAILED, FALSE>>,
      <<FAILED, RAW, FALSE>>,
      <<FAILED, PROCESSING, FALSE>>,
      <<DRAFT, FINAL, TRUE>>,
      <<FINAL, ARCHIVED, FALSE>>,
      <<ARCHIVED, FINAL, TRUE>>,
      <<PROCESSED, RAW, FALSE>> }

\* DocumentStateManager._build_transition_map: from_state -> set of to_states
build_transition_map ==
    [s \in {t[1] : t \in VALID_TRANSITIONS} |->
        {t[2] : t \in {u \in VALID_TRANSITIONS : u[1] = s}}]

is_valid_transition_always(from_state, to_state) == TRUE

\* DocumentStateManager._is_valid_transition
is_valid_transition(from_state, to_state) ==
    IF from_state \notin DOMAIN build_transition_map
    THEN FALSE
    ELSE to_state \in build_transition_map[from_state]

(* ------------------------------- keys --------------------------------- *)

\* raw/{doc_id}/original.pdf
raw_key(d) == <<d, "raw", 0>>
\* processed/{doc_id}/v{n}/output.md
md_key(d, v) == <<d, "md", v>>
\* processed/{doc_id}/v{n}/output.json
json_key(d, v) == <<d, "json", v>>
\* processed/{doc_id}/current_version.txt
pointer_key(d) == <<d, "ptr", 0>>

\* keys under the prefix processed/{doc_id}/
IsProcessedKey(k, d) == k[1] = d /\ k[2] \in {"md", "json", "ptr"}
\* processed/{doc_id}/v{n}/output.{ext}: four parts, third starts with 'v'
IsVersionKey(k, d) == k[1] = d /\ k[2] \in {"md", "json"}

(* ------------------------------- tags --------------------------------- *)

EmptyMap == [x \in {} |-> ""]

\* datetime.utcnow().isoformat() + 'Z'
isoformat_Z(t) == <<"ts", t>>

\* tags.get('stage'), "" for a missing tag
tag_stage(tags) == IF "stage" \in DOMAIN tags THEN tags["stage"] ELSE ""
\* tags.get('previous_stage'), "" for a missing tag
tag_previous_stage(tags) ==
    IF "previous_stage" \in DOMAIN tags THEN tags["previous_stage"] ELSE ""

parse_state_unchecked(stage_tag) ==
    IF stage_tag = "" THEN NoState ELSE stage_tag

\* DocumentState(stage_tag) with the `if not stage_tag` and ValueError cases
parse_state(stage_tag) ==
    IF stage_tag = "" THEN NoState
    ELSE IF stage_tag \in DocumentState THEN stage_tag
    ELSE NoState

\* metadata.items() written under the prefix "meta_"
meta_tags(metadata) ==
    [k \in {"meta_" \o m : m \in DOMAIN metadata} |->
        metadata[CHOOSE m \in DOMAIN metadata : "meta_" \o m = k]]

new_tags_no_previous(to_state, current_state, metadata, t) ==
    ("stage" :> to_state) @@ ("state_changed_at" :> isoformat_Z(t))
        @@ meta_tags(metadata)

new_tags_always_previous(to_state, current_state, metadata, t) ==
    ("stage" :> to_state) @@ ("state_changed_at" :> isoformat_Z(t))
        @@ ("previous_stage" :> current_state)
        @@ meta_tags(metadata)

\* transition_document_state: the tag set written by a transition
new_tags(to_state, current_state, metadata, t) ==
    ("stage" :> to_state) @@ ("state_changed_at" :> isoformat_Z(t))
        @@ (IF current_state # NoState
            THEN ("previous_stage" :> current_state) ELSE EmptyMap)
        @@ meta_tags(metadata)

(* ------------------------------ state --------------------------------- *)

VARIABLES
    store,      \* object store: key -> [content, tags], for the keys that exist
    cache,      \* MemoryCache.cache: cache key -> [value, expires_at]
    hit_count,  \* DocumentCache.hit_count
    miss_count, \* DocumentCache.miss_count
    now,        \* the clock read by datetime.utcnow()
    loc         \* per caller: position, arguments and locals of the running call

vars == <<store, cache, hit_count, miss_count, now, loc>>

\* the two artifacts' contents of a version, as create_document_version takes
\* them and get_document_version_content returns them
NoBody == [md |-> "", json |-> ""]
Bodies == {[md |-> "A", json |-> "JA"], [md |-> "B", json |-> "JB"]}

NoResult ==
    [kind |-> "none", exc |-> "", ver |-> NoVersion, content |-> NoBody,
     state |-> NoState]

\* the locals of retry_with_backoff's wrapper before a decorated call: the
\* decorator's arguments, the delays slept so far, last_exception, and the
\* attributes of the RetryExhaustedError it raised
NoRetry ==
    [ func |-> "", max_attempts |-> 0, base_delay |-> 0, max_delay |-> 0,
      backoff_factor |-> 0, exceptions |-> {}, attempt |-> 0, calls |-> 0,
      sleeps |-> <<>>, last_exception |-> "",
      operation |-> "", attempts |-> 0, last_error |-> "" ]

\* a caller between two calls
IdleLoc ==
    [ pc |-> "idle", op |-> "none", doc |-> "d1", ver |-> NoVersion,
      key |-> raw_key("d1"),
      to |-> RAW, meta |-> EmptyMap, force |-> FALSE, useCache |-> FALSE,
      body |-> NoBody, tags |-> EmptyMap,
      gsKey |-> raw_key("d1"), gsRet |-> "", gsVal |-> NoState,
      trKey |-> raw_key("d1"), trTo |-> RAW, trMeta |-> EmptyMap, trRet |-> "",
      lvRet |-> "", lvTodo |-> <<>>, lvOut |-> EmptyMap,
      curFinal |-> NoVersion,
      gcRet |-> "", gcPhase |-> "", gcVal |-> NoVersion, ptrVer |-> NoVersion,
      got |-> EmptyMap,
      ncalls |-> 0,
      auto |-> FALSE, err |-> "", rolled |-> "",
      adOp |-> "", fault |-> "", cacheFailed |-> FALSE,
      prev |-> "none", prevDoc |-> "", arg |-> "", snapHit |-> 0, snapMiss |-> 0,
      listed |-> <<>>,
      reason |-> "", prefix |-> "", timeout |-> 0, limit |-> 0,
      found |-> {}, stats |-> EmptyMap, status |-> "",
      ids |-> <<>>, todo |-> <<>>, results |-> EmptyMap, info |-> EmptyMap,
      rb |-> NoRetry, written |-> EmptyMap, at |-> 0,
      result |-> NoResult,
      snap |-> EmptyMap, snapCache |-> EmptyMap ]

exists(k) == k \in DOMAIN store

\* the call returns: locals are dropped, the result is kept
Finish(l, res) ==
    [IdleLoc EXCEPT !.op = l.op, !.doc = l.doc, !.ver = l.ver, !.to = l.to,
                    !.key = l.key, !.useCache = l.useCache,
                    !.meta = l.meta, !.force = l.force, !.body = l.body,
                    !.ncalls = l.ncalls, !.result = res,
                    !.auto = l.auto, !.err = l.err, !.rolled = l.rolled,
                    !.adOp = l.adOp, !.fault = l.fault,
                    !.cacheFailed = l.cacheFailed, !.listed = l.listed,
                    !.reason = l.reason, !.prefix = l.prefix,
                    !.timeout = l.timeout, !.limit = l.limit,
                    !.found = l.found, !.stats = l.stats, !.status = l.status,
                    !.ids = l.ids, !.results = l.results, !.rb = l.rb,
                    !.prev = l.prev,
                    !.snap = l.snap, !.snapCache = l.snapCache]

Ok == [NoResult EXCEPT !.kind = "ok"]
OkVersion(v) == [NoResult EXCEPT !.kind = "ok", !.ver = v]
OkContent(c) == [NoResult EXCEPT !.kind = "ok", !.content = c]
Exc(name) == [NoResult EXCEPT !.kind = "exc", !.exc = name]
OkState(s) == [NoResult EXCEPT !.kind = "ok", !.state = s]


(* ------------------------- control transfer --------------------------- *)

\* get_current_document_version returns v to the operation that called it
GcReturn(l, v) ==
    IF l.gcRet = "ret_getcur" THEN Finish(l, OkVersion(v))
    ELSE [l EXCEPT !.pc = l.gcRet, !.gcVal = v, !.gcRet = "", !.gcPhase = "",
                   !.lvOut = EmptyMap, !.ptrVer = NoVersion]

\* An exception leaves the running call through the innermost handler:
\* get_current_document_version falls back to the version scan for an error
\* in its pointer block and returns None for any other error;
\* get_final_document_content and reset_document_state wrap every error in
\* DocumentStateError; batch_mark_documents_processing catches the error of
\* the item; the other calls re-raise.
Raise(l, exc) ==
    IF l.gcRet # "" /\ l.gcPhase = "ptr"
    THEN [l EXCEPT !.pc = "lv_list", !.lvRet = "gc_scan", !.gcPhase = "scan"]
    ELSE IF l.gcRet # ""
    THEN GcReturn(l, NoVersion)
    ELSE IF l.op \in {"getfinal", "reset"}
    THEN Finish(l, Exc("DocumentStateError"))
    ELSE IF l.op = "batch"
    THEN [l EXCEPT !.pc = "bm_item_failed", !.err = exc]
    ELSE Finish(l, Exc(exc))

\* a return to the label `ret`; the ret_* labels end the running call
Goto(l, ret) ==
    IF ret = "ret_transition" THEN Finish(l, Ok)
    ELSE IF ret = "ret_getcur" THEN Finish(l, OkVersion(l.gcVal))
    ELSE IF ret = "ret_getstate" THEN Finish(l, OkState(l.gsVal))
    ELSE [l EXCEPT !.pc = ret]

\* one more object-store call of the running call
Called(l) == [l EXCEPT !.ncalls = @ + 1]

(* ------------------- DocumentStateManager: the FSM -------------------- *)

\* get_document_state, first call: object_exists(bucket, doc_key)
gs_object_exists(c) ==
    /\ loc[c].pc = "gs_exists"
    /\ loc' = [loc EXCEPT ![c] =
         IF exists(loc[c].gsKey)
         THEN [Called(loc[c]) EXCEPT !.pc = "gs_tags"]
         ELSE Raise(Called(loc[c]), "DocumentNotFoundError")]
    /\ UNCHANGED <<store, cache, hit_count, miss_count, now>>

\* get_document_state, second call: get_object_tags and the parse of 'stage'
gs_get_object_tags(c) ==
    /\ loc[c].pc = "gs_tags"
    /\ loc' = [loc EXCEPT ![c] =
         IF exists(loc[c].gsKey)
         THEN Goto([Called(loc[c]) EXCEPT
                      !.gsVal = parse_state(tag_stage(store[loc[c].gsKey].tags))],
                   loc[c].gsRet)
         ELSE Raise(Called(loc[c]), "S3ObjectNotFoundError")]
    /\ UNCHANGED <<store, cache, hit_count, miss_count, now>>

\* transition_document_state(doc_key, to_state, metadata, force) is called
StartTransition(c, key, to_state, metadata, force) ==
    /\ loc[c].pc = "idle"
    /\ loc' = [loc EXCEPT ![c] =
         [IdleLoc EXCEPT !.op = "transition", !.to = to_state, !.meta = metadata,
                         !.force = force, !.doc = key[1], !.key = key,
                         !.trKey = key, !.trTo = to_state, !.trMeta = metadata,
                         !.trRet = "ret_transition",
                         !.gsKey = key, !.gsRet = "tr_put", !.pc = "gs_exists",
                         !.snap = store, !.snapCache = cache]]
    /\ UNCHANGED <<store, cache, hit_count, miss_count, now>>

tr_put_object_tags_merging(c) ==
    LET l == loc[c]
    IN
    /\ l.pc = "tr_put"
    /\ exists(l.trKey)
    /\ store' = [store EXCEPT ![l.trKey].tags =
                    new_tags(l.trTo, l.gsVal, l.trMeta, now) @@ @]
    /\ loc' = [loc EXCEPT ![c] = Goto(Called(l), l.trRet)]
    /\ UNCHANGED <<cache, hit_count, miss_count, now>>

\* transition_document_state after get_document_state returned: the edge is
\* validated unless forced or the object has no state, then put_object_tags
\* replaces the object's whole tag set
tr_put_object_tags(c) ==
    LET l == loc[c]
        forced == l.op \in {"transition", "reset"} /\ l.force
    IN
    /\ l.pc = "tr_put"
    /\ IF ~forced /\ l.gsVal # NoState /\ ~is_valid_transition(l.gsVal, l.trTo)
       THEN /\ loc' = [loc EXCEPT ![c] = Raise(l, "InvalidStateTransitionError")]
            /\ UNCHANGED store
       ELSE IF ~exists(l.trKey)
       THEN /\ loc' = [loc EXCEPT ![c] = Raise(Called(l), "S3ObjectNotFoundError")]
            /\ UNCHANGED store
       ELSE /\ store' = [store EXCEPT ![l.trKey].tags =
                            new_tags(l.trTo, l.gsVal, l.trMeta, now)]
            /\ loc' = [loc EXCEPT ![c] = Goto(Called(l), l.trRet)]
    /\ UNCHANGED <<cache, hit_count, miss_count, now>>

\* get_document_state(doc_key) is called
StartGetState(c, key) ==
    /\ loc[c].pc = "idle"
    /\ loc' = [loc EXCEPT ![c] =
         [IdleLoc EXCEPT !.op = "getstate", !.doc = key[1], !.key = key,
                         !.gsKey = key, !.gsRet = "ret_getstate", !.pc = "gs_exists",
                         !.snap = store, !.snapCache = cache]]
    /\ UNCHANGED <<store, cache, hit_count, miss_count, now>>

\* reasons a caller gives for a reset; "" is None
Reasons == {"", "stuck"}

\* reset_document_state(doc_key, to_state, reason) is called: it starts with
\* get_document_state(doc_key)
StartReset(c, key, to_state, reason) ==
    /\ loc[c].pc = "idle"
    /\ loc' = [loc EXCEPT ![c] =
         [IdleLoc EXCEPT !.op = "reset", !.doc = key[1], !.key = key,
                         !.to = to_state, !.reason = reason,
                         !.gsKey = key, !.gsRet = "rs_transition", !.pc = "gs_exists",
                         !.snap = store, !.snapCache = cache]]
    /\ UNCHANGED <<store, cache, hit_count, miss_count, now>>

reset_metadata_without_from(reason, current_state) ==
    ("reset_reason" :> (IF reason = "" THEN "Manual reset" ELSE reason))

\* reset_document_state: {'reset_reason': reason or 'Manual reset'} and
\* 'reset_from' if the object has a state
reset_metadata(reason, current_state) ==
    ("reset_reason" :> (IF reason = "" THEN "Manual reset" ELSE reason))
        @@ (IF current_state # NoState
            THEN ("reset_from" :> current_state) ELSE EmptyMap)

\* reset_document_state: transition_document_state(doc_key, to_state,
\* metadata, force=True), which reads the state again
rs_transition(c) ==
    /\ loc[c].pc = "rs_transition"
    /\ loc' = [loc EXCEPT ![c] =
         [loc[c] EXCEPT !.force = TRUE,
                        !.meta = reset_metadata(loc[c].reason, loc[c].gsVal),
                        !.trKey = loc[c].key, !.trTo = loc[c].to,
                        !.trMeta = reset_metadata(loc[c].reason, loc[c].gsVal),
                        !.trRet = "ret_transition",
                        !.gsKey = loc[c].key, !.gsRet = "tr_put", !.pc = "gs_exists"]]
    /\ UNCHANGED <<store, cache, hit_count, miss_count, now>>

\* processor_info a caller passes to mark_document_processing
ProcessorInfos == {EmptyMap, ("processor" :> "w1"), ("started_by" :> "p2")}

\* mark_document_processing: processor_info or {} with
\* 'processing_started_at' set
mark_metadata(processor_info, t) ==
    ("processing_started_at" :> isoformat_Z(t)) @@ processor_info

\* the transition that mark_document_processing requests for document d
MarkCall(l, d, processor_info, t, ret) ==
    [l EXCEPT !.doc = d, !.key = raw_key(d), !.to = PROCESSING,
              !.meta = mark_metadata(processor_info, t),
              !.trKey = raw_key(d), !.trTo = PROCESSING,
              !.trMeta = mark_metadata(processor_info, t), !.trRet = ret,
              !.gsKey = raw_key(d), !.gsRet = "tr_put", !.pc = "gs_exists"]

\* mark_document_processing(doc_id, processor_info) is called
StartMark(c, d, processor_info) ==
    /\ loc[c].pc = "idle"
    /\ loc' = [loc EXCEPT ![c] =
         MarkCall([IdleLoc EXCEPT !.op = "mark", !.snap = store, !.snapCache = cache],
                  d, processor_info, now, "ret_transition")]
    /\ UNCHANGED <<store, cache, hit_count, miss_count, now>>

\* the clock advances
Tick ==
    /\ now < MaxTime
    /\ now' = now + 1
    /\ UNCHANGED <<store, cache, hit_count, miss_count, loc>>

(* --------------- specification: one object and the FSM ---------------- *)

\* metadata a caller passes with a transition
Metas == {EmptyMap, ("approved_by" :> "u1")}
\* stage tags an object may carry when the state manager first sees it:
\* a known state, no tag at all (""), or a value outside the enumeration
StageTags == DocumentState \cup {"", "bogus"}

InitFSM ==
    /\ \E s \in StageTags :
         store = (raw_key("d1") :>
                    [content |-> "A",
                     tags |-> IF s = "" THEN EmptyMap
                              ELSE ("stage" :> s)
                                   @@ ("state_changed_at" :> isoformat_Z(0))])
    /\ cache = EmptyMap
    /\ hit_count = 0
    /\ miss_count = 0
    /\ now = 0
    /\ loc = [c \in Callers |-> IdleLoc]

\* the keys the state manager is called with: an object and a missing one
FSMKeys == {raw_key("d1"), raw_key("d2")}

NextFSM ==
    \/ \E to_state \in DocumentState, metadata \in Metas, force \in BOOLEAN :
          StartTransition("c1", raw_key("d1"), to_state, metadata, force)
    \/ \E key \in FSMKeys : StartGetState("c1", key)
    \/ \E key \in FSMKeys, to_state \in DocumentState, reason \in Reasons :
          StartReset("c1", key, to_state, reason)
    \/ rs_transition("c1")
    \/ gs_object_exists("c1")
    \/ gs_get_object_tags("c1")
    \/ tr_put_object_tags("c1")
    \/ Tick

SpecFSM == InitFSM /\ [][NextFSM]_vars

\* the transition graph as the specification draws it
GraphEdges ==
    { <<RAW, PROCESSING>>, <<PROCESSING, PROCESSED>>, <<PROCESSING, FAILED>>,
      <<FAILED, RAW>>, <<FAILED, PROCESSING>>, <<PROCESSED, RAW>>,
      <<DRAFT, FINAL>>, <<FINAL, ARCHIVED>>, <<ARCHIVED, FINAL>> }

\* caller c has returned from an unforced transition of an object whose
\* stored stage was a known state
UnforcedDone(c) ==
    /\ loc[c].pc = "idle"
    /\ loc[c].op = "transition"
    /\ loc[c].result.kind # "none"
    /\ ~loc[c].force
    /\ loc[c].key \in DOMAIN loc[c].snap
    /\ tag_stage(loc[c].snap[loc[c].key].tags) \in DocumentState

\* C3: an unforced transition along a pair that is not an edge of the graph
\* (self-transitions included) raises InvalidStateTransitionError and leaves
\* the object's whole tag set as it was.
C3_InvalidTransitionRejected ==
    \A c \in Callers :
        LET k == loc[c].key
            s == tag_stage(loc[c].snap[k].tags)
        IN (UnforcedDone(c) /\ <<s, loc[c].to>> \notin GraphEdges)
           => /\ loc[c].result.kind = "exc"
              /\ loc[c].result.exc = "InvalidStateTransitionError"
              /\ store[k] = loc[c].snap[k]

C3_Witness ==
    /\ UnforcedDone("c1")
    /\ <<tag_stage(loc["c1"].snap[loc["c1"].key].tags), loc["c1"].to>>
          \notin GraphEdges
    /\ loc["c1"].result.exc = "InvalidStateTransitionError"
    /\ "previous_stage" \in DOMAIN store[loc["c1"].key].tags

\* C4: an unforced transition along an edge (s, t) of the graph succeeds;
\* afterwards the stored stage is t and previous_stage is exactly s.
C4_ValidTransitionApplied ==
    \A c \in Callers :
        LET k == loc[c].key
            s == tag_stage(loc[c].snap[k].tags)
        IN (UnforcedDone(c) /\ <<s, loc[c].to>> \in GraphEdges)
           => /\ loc[c].result.kind = "ok"
              /\ tag_stage(store[k].tags) = loc[c].to
              /\ tag_previous_stage(store[k].tags) = s

C4_Witness ==
    /\ UnforcedDone("c1")
    /\ loc["c1"].result.kind = "ok"
    /\ tag_stage(loc["c1"].snap[loc["c1"].key].tags) = ARCHIVED
    /\ tag_stage(store[loc["c1"].key].tags) = FINAL
    /\ tag_previous_stage(store[loc["c1"].key].tags) = ARCHIVED


(* ------------------------------ the cache ----------------------------- *)

\* DocumentCache._make_key
make_key(prefix, arg) == <<prefix, arg>>

\* config.cache_ttl_seconds, the default_ttl of MemoryCache
default_ttl == 3600
\* expires_at of an entry that never expires (None)
NoExpiry == -1
\* MemoryCache.set sweeps expired entries when len(cache) % 100 == 0
CleanupEvery == 100

\* DocumentCache.invalidate_lists: the list categories it deletes
list_types == {"final", "draft", "raw", "processing", "failed"}

is_expired_inclusive(entry, t) ==
    IF entry.expires_at = NoExpiry THEN FALSE ELSE t >= entry.expires_at

\* MemoryCache._is_expired
is_expired(entry, t) ==
    IF entry.expires_at = NoExpiry THEN FALSE ELSE t > entry.expires_at

\* MemoryCache.delete, MemoryCache.get on an expired entry: del self.cache[key]
cache_del(ch, key) == [k \in (DOMAIN ch) \ {key} |-> ch[k]]

\* MemoryCache.get: a live entry is a hit
cache_hit(ch, key, t) == key \in DOMAIN ch /\ ~is_expired(ch[key], t)

\* MemoryCache.get: the cache it leaves (an expired entry is deleted)
cache_after_get(ch, key, t) ==
    IF key \in DOMAIN ch /\ is_expired(ch[key], t) THEN cache_del(ch, key) ELSE ch

\* MemoryCache._cleanup_expired
cleanup_expired(ch, t) ==
    [k \in {j \in DOMAIN ch : ~is_expired(ch[j], t)} |-> ch[k]]

\* MemoryCache.set(key, value, ttl): ttl = ttl or self.default_ttl
cache_set_ttl(ch, key, value, ttl_arg, t) ==
    LET ttl == IF ttl_arg = 0 THEN default_ttl ELSE ttl_arg
        entry == [value |-> value,
                  expires_at |-> IF ttl > 0 THEN t + ttl ELSE NoExpiry]
        put == (key :> entry) @@ ch
    IN IF Cardinality(DOMAIN put) % CleanupEvery = 0
       THEN cleanup_expired(put, t) ELSE put

\* MemoryCache.set with ttl = None
cache_set(ch, key, value, t) == cache_set_ttl(ch, key, value, 0, t)

\* DocumentCache.invalidate_document with invalidate_lists
invalidate_document(ch, d) ==
    LET gone == {make_key("content", d)} \cup {make_key("list", t) : t \in list_types}
    IN [k \in (DOMAIN ch) \ gone |-> ch[k]]

(* --------------------- DocumentStore: versions ------------------------ *)

\* the version numbers parsed from the keys processed/{doc_id}/v{n}/...
versions_listed(d) == {k[3] : k \in {j \in DOMAIN store : IsVersionKey(j, d)}}

next_version_number_count(d) == Cardinality(versions_listed(d)) + 1

\* get_next_version_number: max over the listed keys (0 when none) plus 1
next_version_number(d) ==
    LET vs == versions_listed(d)
    IN (IF vs = {} THEN 0 ELSE CHOOSE m \in vs : \A v \in vs : v <= m) + 1

\* ascending sequence of a set of version numbers (the final sort of
\* list_document_versions)
RECURSIVE sorted_versions(_)
sorted_versions(vs) ==
    IF vs = {} THEN <<>>
    ELSE LET m == CHOOSE x \in vs : \A y \in vs : x <= y
         IN <<m>> \o sorted_versions(vs \ {m})

\* approve_document_version / get_current_document_version: the first entry
\* of the sorted version list whose state is 'final', None without one
first_final(out) ==
    LET fs == {v \in DOMAIN out : out[v].state = FINAL}
    IN IF fs = {} THEN NoVersion ELSE CHOOSE m \in fs : \A v \in fs : m <= v

\* create_document_version: creates in progress (they hold a version number)
CreatesRunning == Cardinality({c \in Callers : loc[c].op = "create" /\ loc[c].pc # "idle"})

\* create_document_version(doc_id, md_content, json_content, version, metadata)
\* is called; version = NoVersion asks for an allocated number
StartCreate(c, d, body, version, metadata) ==
    /\ loc[c].pc = "idle"
    /\ IF version = NoVersion
       THEN next_version_number(d) + CreatesRunning <= MaxVersion
       ELSE version \in Versions
    /\ loc' = [loc EXCEPT ![c] =
         [IdleLoc EXCEPT !.op = "create", !.doc = d, !.body = body,
                         !.ver = version, !.meta = metadata,
                         !.auto = (version = NoVersion),
                         !.pc = IF version = NoVersion THEN "c_next" ELSE "c_exists",
                         !.snap = store, !.snapCache = cache]]
    /\ UNCHANGED <<store, cache, hit_count, miss_count, now>>

\* create_document_version: get_next_version_number lists the prefix
c_get_next_version_number(c) ==
    /\ loc[c].pc = "c_next"
    /\ loc' = [loc EXCEPT ![c] =
         [Called(loc[c]) EXCEPT !.ver = next_version_number(loc[c].doc),
                                !.pc = "c_exists"]]
    /\ UNCHANGED <<store, cache, hit_count, miss_count, now>>

create_tags_unprefixed(d, version, metadata, t) ==
    ("stage" :> DRAFT) @@ ("doc_id" :> d) @@ ("version" :> version)
        @@ ("created_at" :> isoformat_Z(t)) @@ metadata

\* the tags create_document_version writes on both artifacts
create_tags(d, version, metadata, t) ==
    ("stage" :> DRAFT) @@ ("doc_id" :> d) @@ ("version" :> version)
        @@ ("created_at" :> isoformat_Z(t)) @@ meta_tags(metadata)

c_object_exists_unchecked(c) ==
    /\ loc[c].pc = "c_exists"
    /\ loc' = [loc EXCEPT ![c] =
         [Called(loc[c]) EXCEPT
            !.tags = create_tags(loc[c].doc, loc[c].ver, loc[c].meta, now),
            !.pc = "c_put_md"]]
    /\ UNCHANGED <<store, cache, hit_count, miss_count, now>>

\* create_document_version: object_exists(md_key), then the tags are prepared
c_object_exists(c) ==
    /\ loc[c].pc = "c_exists"
    /\ loc' = [loc EXCEPT ![c] =
         IF exists(md_key(loc[c].doc, loc[c].ver))
         THEN Finish(Called(loc[c]), Exc("VersionAlreadyExistsError"))
         ELSE [Called(loc[c]) EXCEPT
                 !.tags = create_tags(loc[c].doc, loc[c].ver, loc[c].meta, now),
                 !.pc = "c_put_md"]]
    /\ UNCHANGED <<store, cache, hit_count, miss_count, now>>

\* put_object_content: the object is created or overwritten
put_object(st, key, content, tags) ==
    [k \in (DOMAIN st) \cup {key} |->
        IF k = key THEN [content |-> content, tags |-> tags] ELSE st[k]]

\* delete_object
delete_object(st, key) == [k \in (DOMAIN st) \ {key} |-> st[k]]

\* create_document_version: put_object_content of the markdown artifact
c_put_md(c) ==
    /\ loc[c].pc = "c_put_md"
    /\ store' = put_object(store, md_key(loc[c].doc, loc[c].ver),
                           loc[c].body.md, loc[c].tags)
    /\ loc' = [loc EXCEPT ![c] = [Called(loc[c]) EXCEPT !.pc = "c_put_json"]]
    /\ UNCHANGED <<cache, hit_count, miss_count, now>>

\* create_document_version: put_object_content of the JSON artifact; the
\* version is returned
c_put_json(c) ==
    /\ loc[c].pc = "c_put_json"
    /\ store' = put_object(store, json_key(loc[c].doc, loc[c].ver),
                           loc[c].body.json, loc[c].tags)
    /\ loc' = [loc EXCEPT ![c] = Finish(Called(loc[c]), OkVersion(loc[c].ver))]
    /\ UNCHANGED <<cache, hit_count, miss_count, now>>

\* the errors put_object_content and delete_object raise for a failed request
StoreErrors == {"S3OperationError", "S3PermissionError"}

\* create_document_version: put_object_content of the JSON artifact raises
\* exc; nothing is written and the handler of the inner try is entered
c_put_json_fails(c, exc) ==
    /\ loc[c].pc = "c_put_json"
    /\ loc' = [loc EXCEPT ![c] = [Called(loc[c]) EXCEPT !.err = exc,
                                                        !.pc = "c_rollback"]]
    /\ UNCHANGED <<store, cache, hit_count, miss_count, now>>

c_rollback_skipped(c) ==
    /\ loc[c].pc = "c_rollback"
    /\ loc' = [loc EXCEPT ![c] =
         Finish([Called(loc[c]) EXCEPT !.rolled = "deleted"], Exc(loc[c].err))]
    /\ UNCHANGED <<store, cache, hit_count, miss_count, now>>

\* create_document_version, rollback: delete_object(md_key) succeeds, then
\* the bare raise re-raises the error of the JSON write
c_rollback(c) ==
    /\ loc[c].pc = "c_rollback"
    /\ store' = delete_object(store, md_key(loc[c].doc, loc[c].ver))
    /\ loc' = [loc EXCEPT ![c] =
         Finish([Called(loc[c]) EXCEPT !.rolled = "deleted"], Exc(loc[c].err))]
    /\ UNCHANGED <<cache, hit_count, miss_count, now>>

\* create_document_version, rollback: delete_object(md_key) raises; the
\* error is swallowed and the error of the JSON write is re-raised
c_rollback_fails(c, exc) ==
    /\ loc[c].pc = "c_rollback"
    /\ exc \in StoreErrors
    /\ loc' = [loc EXCEPT ![c] =
         Finish([Called(loc[c]) EXCEPT !.rolled = "failed"], Exc(loc[c].err))]
    /\ UNCHANGED <<store, cache, hit_count, miss_count, now>>

(* list_document_versions *)

\* list_document_versions: list_objects_with_prefix and the versions dict
lv_list_objects(c) ==
    /\ loc[c].pc = "lv_list"
    /\ loc' = [loc EXCEPT ![c] =
         LET todo == sorted_versions(versions_listed(loc[c].doc))
             l == [Called(loc[c]) EXCEPT !.lvTodo = todo, !.lvOut = EmptyMap]
         IN IF todo = <<>> THEN Goto(l, l.lvRet)
            ELSE [l EXCEPT !.pc = "lv_exists"]]
    /\ UNCHANGED <<store, cache, hit_count, miss_count, now>>

\* a version of the list is complete: the next one, or the sorted list is returned
lv_append(l, info) ==
    LET v == Head(l.lvTodo)
        m == [l EXCEPT !.lvOut = (v :> info) @@ l.lvOut, !.lvTodo = Tail(l.lvTodo)]
    IN IF m.lvTodo = <<>> THEN Goto(m, m.lvRet)
       ELSE [m EXCEPT !.pc = "lv_exists"]

\* list_document_versions: object_exists(md_key) of the next version; a
\* version without markdown artifact keeps state None
lv_object_exists(c) ==
    /\ loc[c].pc = "lv_exists"
    /\ loc' = [loc EXCEPT ![c] =
         IF exists(md_key(loc[c].doc, Head(loc[c].lvTodo)))
         THEN [Called(loc[c]) EXCEPT !.pc = "lv_tags"]
         ELSE lv_append(Called(loc[c]), [state |-> "", tags |-> EmptyMap])]
    /\ UNCHANGED <<store, cache, hit_count, miss_count, now>>

\* list_document_versions: get_object_tags(md_key); an error is logged and
\* the version keeps state None
lv_get_object_tags(c) ==
    /\ loc[c].pc = "lv_tags"
    /\ loc' = [loc EXCEPT ![c] =
         LET k == md_key(loc[c].doc, Head(loc[c].lvTodo))
         IN IF exists(k)
            THEN lv_append(Called(loc[c]),
                           [state |-> tag_stage(store[k].tags), tags |-> store[k].tags])
            ELSE lv_append(Called(loc[c]), [state |-> "", tags |-> EmptyMap])]
    /\ UNCHANGED <<store, cache, hit_count, miss_count, now>>


(* approve_document_version *)

\* metadata a caller passes as approver_info
ApproverInfos == {EmptyMap, ("approved_by" :> "u1")}

\* a call of transition_document_state from another operation: it starts
\* with get_document_state and returns to `ret`
CallTransition(l, key, to_state, metadata, ret) ==
    [l EXCEPT !.trKey = key, !.trTo = to_state, !.trMeta = metadata, !.trRet = ret,
              !.gsKey = key, !.gsRet = "tr_put", !.pc = "gs_exists"]

\* approve_document_version(doc_id, version, approver_info) is called
StartApprove(c, d, version, approver_info) ==
    /\ loc[c].pc = "idle"
    /\ loc' = [loc EXCEPT ![c] =
         [IdleLoc EXCEPT !.op = "approve", !.doc = d, !.ver = version,
                         !.meta = approver_info, !.pc = "a_exists",
                         !.snap = store, !.snapCache = cache]]
    /\ UNCHANGED <<store, cache, hit_count, miss_count, now>>

\* approve_document_version: object_exists(md_key), else VersionNotFoundError;
\* then get_state(md_key)
a_object_exists(c) ==
    /\ loc[c].pc = "a_exists"
    /\ loc' = [loc EXCEPT ![c] =
         IF exists(md_key(loc[c].doc, loc[c].ver))
         THEN [Called(loc[c]) EXCEPT !.gsKey = md_key(loc[c].doc, loc[c].ver),
                                     !.gsRet = "a_check", !.pc = "gs_exists"]
         ELSE Finish(Called(loc[c]), Exc("VersionNotFoundError"))]
    /\ UNCHANGED <<store, cache, hit_count, miss_count, now>>

a_check_draft_any_state(c) ==
    /\ loc[c].pc = "a_check"
    /\ loc' = [loc EXCEPT ![c] = [loc[c] EXCEPT !.pc = "lv_list", !.lvRet = "a_find"]]
    /\ UNCHANGED <<store, cache, hit_count, miss_count, now>>

\* approve_document_version: the version must be DRAFT, else
\* InvalidStateTransitionError; then list_document_versions
a_check_draft(c) ==
    /\ loc[c].pc = "a_check"
    /\ loc' = [loc EXCEPT ![c] =
         IF loc[c].gsVal # DRAFT
         THEN Finish(loc[c], Exc("InvalidStateTransitionError"))
         ELSE [loc[c] EXCEPT !.pc = "lv_list", !.lvRet = "a_find"]]
    /\ UNCHANGED <<store, cache, hit_count, miss_count, now>>

a_find_current_final_none(c) ==
    /\ loc[c].pc = "a_find"
    /\ loc' = [loc EXCEPT ![c] = [loc[c] EXCEPT !.pc = "a_final_md"]]
    /\ UNCHANGED <<store, cache, hit_count, miss_count, now>>

\* approve_document_version: the first FINAL version of the list, if it is
\* another version, is archived, markdown artifact first
a_find_current_final(c) ==
    /\ loc[c].pc = "a_find"
    /\ loc' = [loc EXCEPT ![c] =
         LET cf == first_final(loc[c].lvOut)
             l == [loc[c] EXCEPT !.curFinal = cf, !.lvOut = EmptyMap]
         IN IF cf # NoVersion /\ cf # l.ver
            THEN CallTransition(l, md_key(l.doc, cf), ARCHIVED, EmptyMap,
                                "a_archive_json")
            ELSE [l EXCEPT !.pc = "a_final_md"]]
    /\ UNCHANGED <<store, cache, hit_count, miss_count, now>>

a_archive_json_skipped(c) ==
    /\ loc[c].pc = "a_archive_json"
    /\ loc' = [loc EXCEPT ![c] = [loc[c] EXCEPT !.pc = "a_final_md"]]
    /\ UNCHANGED <<store, cache, hit_count, miss_count, now>>

\* approve_document_version: the JSON artifact of the old version is archived
a_archive_json(c) ==
    /\ loc[c].pc = "a_archive_json"
    /\ loc' = [loc EXCEPT ![c] =
         CallTransition(loc[c], json_key(loc[c].doc, loc[c].curFinal), ARCHIVED,
                        EmptyMap, "a_final_md")]
    /\ UNCHANGED <<store, cache, hit_count, miss_count, now>>

\* approve_document_version: metadata = approver_info plus approved_at; the
\* markdown artifact of the version goes to FINAL
a_final_md(c) ==
    /\ loc[c].pc = "a_final_md"
    /\ loc' = [loc EXCEPT ![c] =
         CallTransition(loc[c], md_key(loc[c].doc, loc[c].ver), FINAL,
                        ("approved_at" :> isoformat_Z(now)) @@ loc[c].meta,
                        "a_final_json")]
    /\ UNCHANGED <<store, cache, hit_count, miss_count, now>>

a_final_json_no_metadata(c) ==
    /\ loc[c].pc = "a_final_json"
    /\ loc' = [loc EXCEPT ![c] =
         CallTransition(loc[c], json_key(loc[c].doc, loc[c].ver), FINAL,
                        EmptyMap, "a_pointer")]
    /\ UNCHANGED <<store, cache, hit_count, miss_count, now>>

\* approve_document_version: the JSON artifact of the version goes to FINAL
a_final_json(c) ==
    /\ loc[c].pc = "a_final_json"
    /\ loc' = [loc EXCEPT ![c] =
         CallTransition(loc[c], json_key(loc[c].doc, loc[c].ver), FINAL,
                        loc[c].trMeta, "a_pointer")]
    /\ UNCHANGED <<store, cache, hit_count, miss_count, now>>

\* the tags of the current-version pointer
pointer_tags(d, version) ==
    ("stage" :> "metadata") @@ ("doc_id" :> d) @@ ("points_to" :> version)

\* approve_document_version: _update_current_version_pointer writes the pointer
a_update_pointer(c) ==
    /\ loc[c].pc = "a_pointer"
    /\ store' = put_object(store, pointer_key(loc[c].doc), loc[c].ver,
                           pointer_tags(loc[c].doc, loc[c].ver))
    /\ loc' = [loc EXCEPT ![c] = [Called(loc[c]) EXCEPT !.pc = "a_invalidate"]]
    /\ UNCHANGED <<cache, hit_count, miss_count, now>>

a_invalidate_lists_only(c) ==
    /\ loc[c].pc = "a_invalidate"
    /\ cache' = [k \in (DOMAIN cache) \ {make_key("list", t) : t \in list_types}
                    |-> cache[k]]
    /\ loc' = [loc EXCEPT ![c] = Finish(loc[c], Ok)]
    /\ UNCHANGED <<store, hit_count, miss_count, now>>

\* approve_document_version: cache.invalidate_document(doc_id); True is returned
a_invalidate(c) ==
    /\ loc[c].pc = "a_invalidate"
    /\ cache' = invalidate_document(cache, loc[c].doc)
    /\ loc' = [loc EXCEPT ![c] = Finish(loc[c], Ok)]
    /\ UNCHANGED <<store, hit_count, miss_count, now>>

(* get_current_document_version *)

\* get_current_document_version: the fall-back to the version scan
GcScan(l) == [l EXCEPT !.pc = "lv_list", !.lvRet = "gc_scan", !.gcPhase = "scan"]

\* get_current_document_version(doc_id) is called
StartGetCurrent(c, d) ==
    /\ loc[c].pc = "idle"
    /\ loc' = [loc EXCEPT ![c] =
         [IdleLoc EXCEPT !.op = "getcur", !.doc = d, !.pc = "gc_ptr_exists",
                         !.gcRet = "ret_getcur", !.gcPhase = "ptr",
                         !.snap = store, !.snapCache = cache]]
    /\ UNCHANGED <<store, cache, hit_count, miss_count, now>>

\* get_current_document_version: object_exists(pointer_key)
gc_pointer_exists(c) ==
    /\ loc[c].pc = "gc_ptr_exists"
    /\ loc' = [loc EXCEPT ![c] =
         IF exists(pointer_key(loc[c].doc))
         THEN [Called(loc[c]) EXCEPT !.pc = "gc_ptr_read"]
         ELSE GcScan(Called(loc[c]))]
    /\ UNCHANGED <<store, cache, hit_count, miss_count, now>>

\* get_current_document_version: get_object_content(pointer_key)
gc_pointer_read(c) ==
    /\ loc[c].pc = "gc_ptr_read"
    /\ loc' = [loc EXCEPT ![c] =
         IF exists(pointer_key(loc[c].doc))
         THEN [Called(loc[c]) EXCEPT !.ptrVer = store[pointer_key(loc[c].doc)].content,
                                     !.pc = "gc_md_exists"]
         ELSE Raise(Called(loc[c]), "S3ObjectNotFoundError")]
    /\ UNCHANGED <<store, cache, hit_count, miss_count, now>>

\* get_current_document_version: object_exists(md_key) of the pointed-to
\* version, then get_state(md_key)
gc_md_exists(c) ==
    /\ loc[c].pc = "gc_md_exists"
    /\ loc' = [loc EXCEPT ![c] =
         IF exists(md_key(loc[c].doc, loc[c].ptrVer))
         THEN [Called(loc[c]) EXCEPT !.gsKey = md_key(loc[c].doc, loc[c].ptrVer),
                                     !.gsRet = "gc_check", !.pc = "gs_exists"]
         ELSE GcScan(Called(loc[c]))]
    /\ UNCHANGED <<store, cache, hit_count, miss_count, now>>

gc_check_final_trusting(c) ==
    /\ loc[c].pc = "gc_check"
    /\ loc' = [loc EXCEPT ![c] = GcReturn(loc[c], loc[c].ptrVer)]
    /\ UNCHANGED <<store, cache, hit_count, miss_count, now>>

\* get_current_document_version: the pointed-to version is returned if its
\* state is FINAL
gc_check_final(c) ==
    /\ loc[c].pc = "gc_check"
    /\ loc' = [loc EXCEPT ![c] =
         IF loc[c].gsVal = FINAL THEN GcReturn(loc[c], loc[c].ptrVer)
         ELSE GcScan(loc[c])]
    /\ UNCHANGED <<store, cache, hit_count, miss_count, now>>

gc_scan_first_version(c) ==
    /\ loc[c].pc = "gc_scan"
    /\ loc' = [loc EXCEPT ![c] =
         GcReturn(loc[c], IF DOMAIN loc[c].lvOut = {} THEN NoVersion
                          ELSE CHOOSE v \in DOMAIN loc[c].lvOut :
                                  \A w \in DOMAIN loc[c].lvOut : v <= w)]
    /\ UNCHANGED <<store, cache, hit_count, miss_count, now>>

\* get_current_document_version: the first FINAL version of the scan, or None
gc_scan(c) ==
    /\ loc[c].pc = "gc_scan"
    /\ loc' = [loc EXCEPT ![c] = GcReturn(loc[c], first_final(loc[c].lvOut))]
    /\ UNCHANGED <<store, cache, hit_count, miss_count, now>>


(* get_final_document_content *)

\* get_final_document_content(doc_id, use_cache) is called
StartGetFinal(c, d, use_cache) ==
    /\ loc[c].pc = "idle"
    /\ use_cache => hit_count + miss_count < MaxLookups
    /\ loc' = [loc EXCEPT ![c] =
         IF use_cache
         THEN [IdleLoc EXCEPT !.op = "getfinal", !.doc = d, !.useCache = TRUE,
                              !.pc = "gf_cache_get",
                              !.snap = store, !.snapCache = cache]
         ELSE [IdleLoc EXCEPT !.op = "getfinal", !.doc = d, !.useCache = FALSE,
                              !.pc = "gc_ptr_exists", !.gcRet = "gf_content",
                              !.gcPhase = "ptr",
                              !.snap = store, !.snapCache = cache]]
    /\ UNCHANGED <<store, cache, hit_count, miss_count, now>>

\* get_final_document_content: cache.get_document_content(doc_id); a hit is
\* returned, a miss goes on to get_current_document_version
gf_cache_get(c) ==
    LET key == make_key("content", loc[c].doc)
    IN
    /\ loc[c].pc = "gf_cache_get"
    /\ cache' = cache_after_get(cache, key, now)
    /\ IF cache_hit(cache, key, now)
       THEN /\ hit_count' = hit_count + 1
            /\ miss_count' = miss_count
            /\ loc' = [loc EXCEPT ![c] = Finish(loc[c], OkContent(cache[key].value))]
       ELSE /\ miss_count' = miss_count + 1
            /\ hit_count' = hit_count
            /\ loc' = [loc EXCEPT ![c] =
                 [loc[c] EXCEPT !.pc = "gc_ptr_exists", !.gcRet = "gf_content",
                                !.gcPhase = "ptr"]]
    /\ UNCHANGED <<store, now>>

\* get_final_document_content: None without a current version, else
\* get_document_version_content(doc_id, current_version)
gf_content(c) ==
    /\ loc[c].pc = "gf_content"
    /\ loc' = [loc EXCEPT ![c] =
         IF loc[c].gcVal = NoVersion THEN Finish(loc[c], OkContent(NoBody))
         ELSE [loc[c] EXCEPT !.pc = "vc_exists"]]
    /\ UNCHANGED <<store, cache, hit_count, miss_count, now>>

\* get_document_version_content: object_exists(md_key), else VersionNotFoundError
vc_object_exists(c) ==
    /\ loc[c].pc = "vc_exists"
    /\ loc' = [loc EXCEPT ![c] =
         IF exists(md_key(loc[c].doc, loc[c].gcVal))
         THEN [Called(loc[c]) EXCEPT !.pc = "vc_get_md"]
         ELSE Raise(Called(loc[c]), "VersionNotFoundError")]
    /\ UNCHANGED <<store, cache, hit_count, miss_count, now>>

\* get_document_version_content: get_object_content(md_key)
vc_get_md(c) ==
    /\ loc[c].pc = "vc_get_md"
    /\ loc' = [loc EXCEPT ![c] =
         LET k == md_key(loc[c].doc, loc[c].gcVal)
         IN IF exists(k)
            THEN [Called(loc[c]) EXCEPT !.got = [NoBody EXCEPT !.md = store[k].content],
                                        !.pc = "vc_get_json"]
            ELSE Raise(Called(loc[c]), "S3ObjectNotFoundError")]
    /\ UNCHANGED <<store, cache, hit_count, miss_count, now>>

\* get_document_version_content: get_object_content(json_key); back in
\* get_final_document_content the content is cached or returned
vc_get_json(c) ==
    /\ loc[c].pc = "vc_get_json"
    /\ loc' = [loc EXCEPT ![c] =
         LET k == json_key(loc[c].doc, loc[c].gcVal)
         IN IF exists(k)
            THEN LET l == [Called(loc[c]) EXCEPT !.got.json = store[k].content]
                 IN IF l.useCache THEN [l EXCEPT !.pc = "gf_cache_set"]
                    ELSE Finish(l, OkContent(l.got))
            ELSE Raise(Called(loc[c]), "S3ObjectNotFoundError")]
    /\ UNCHANGED <<store, cache, hit_count, miss_count, now>>

gf_cache_set_skipped(c) ==
    /\ loc[c].pc = "gf_cache_set"
    /\ cache' = cache
    /\ loc' = [loc EXCEPT ![c] = Finish(loc[c], OkContent(loc[c].got))]
    /\ UNCHANGED <<store, hit_count, miss_count, now>>

\* get_final_document_content: cache.set_document_content(doc_id, content);
\* the content is returned
gf_cache_set(c) ==
    /\ loc[c].pc = "gf_cache_set"
    /\ cache' = cache_set(cache, make_key("content", loc[c].doc), loc[c].got, now)
    /\ loc' = [loc EXCEPT ![c] = Finish(loc[c], OkContent(loc[c].got))]
    /\ UNCHANGED <<store, hit_count, miss_count, now>>

(* -------- specification: one caller, versions of one document --------- *)

\* an empty bucket and an empty cache
Init ==
    /\ store = EmptyMap
    /\ cache = EmptyMap
    /\ hit_count = 0
    /\ miss_count = 0
    /\ now = 0
    /\ loc = [c \in Callers |-> IdleLoc]

\* the steps shared by the operations on versions
StateSteps(c) ==
    \/ gs_object_exists(c)
    \/ gs_get_object_tags(c)

ListSteps(c) ==
    \/ lv_list_objects(c)
    \/ lv_object_exists(c)
    \/ lv_get_object_tags(c)

CreateSteps(c) ==
    \/ \E body \in Bodies, version \in {NoVersion} \cup Versions, metadata \in Metas :
          StartCreate(c, "d1", body, version, metadata)
    \/ c_get_next_version_number(c)
    \/ c_object_exists(c)
    \/ c_put_md(c)
    \/ c_put_json(c)

ApproveBody(c) ==
    \/ a_object_exists(c)
    \/ a_check_draft(c)
    \/ a_find_current_final(c)
    \/ a_archive_json(c)
    \/ a_final_md(c)
    \/ a_final_json(c)
    \/ tr_put_object_tags(c)
    \/ a_update_pointer(c)
    \/ a_invalidate(c)

ApproveSteps(c) ==
    \/ \E version \in Versions, info \in ApproverInfos :
          StartApprove(c, "d1", version, info)
    \/ ApproveBody(c)

GetCurrentSteps(c) ==
    \/ gc_pointer_exists(c)
    \/ gc_pointer_read(c)
    \/ gc_md_exists(c)
    \/ gc_check_final(c)
    \/ gc_scan(c)

GetFinalSteps(c) ==
    \/ \E use_cache \in BOOLEAN : StartGetFinal(c, "d1", use_cache)
    \/ gf_cache_get(c)
    \/ gf_content(c)
    \/ vc_object_exists(c)
    \/ vc_get_md(c)
    \/ vc_get_json(c)
    \/ gf_cache_set(c)

Next ==
    \/ StateSteps("c1")
    \/ ListSteps("c1")
    \/ CreateSteps("c1")
    \/ ApproveSteps("c1")
    \/ StartGetCurrent("c1", "d1")
    \/ GetCurrentSteps("c1")
    \/ GetFinalSteps("c1")

Spec == Init /\ [][Next]_vars


\* the stage tag of the object at key k, "" without object or tag
stage_at(st, k) == IF k \in DOMAIN st THEN tag_stage(st[k].tags) ELSE ""

\* the versions of document d whose markdown artifact has stage FINAL
FinalVersions(st, d) == {v \in Versions : stage_at(st, md_key(d, v)) = FINAL}

\* caller c has returned from the operation op
Returned(c, op) ==
    /\ loc[c].pc = "idle"
    /\ loc[c].op = op
    /\ loc[c].result.kind # "none"

\* the content of version v of document d in the store
version_content(d, v) ==
    [md |-> store[md_key(d, v)].content, json |-> store[json_key(d, v)].content]

\* C1: with one caller and no backend failure, at most one version of the
\* document has a markdown artifact with stage FINAL, in every state, the
\* states between the tag writes of approve_document_version included.
C1_AtMostOneFinal == Cardinality(FinalVersions(store, "d1")) <= 1

\* an approval has archived the markdown artifact of the old FINAL version
\* and has not yet written FINAL on the new one
C1_Witness ==
    /\ loc["c1"].op = "approve"
    /\ loc["c1"].pc = "a_archive_json"
    /\ stage_at(store, md_key("d1", loc["c1"].curFinal)) = ARCHIVED
    /\ stage_at(store, md_key("d1", loc["c1"].ver)) = DRAFT
    /\ FinalVersions(store, "d1") = {}

\* C5: approve_document_version(doc, v) on a DRAFT version v returns True;
\* then both artifacts of v are FINAL, both artifacts of every version that
\* was FINAL before the call are ARCHIVED, and the pointer holds v.
C5_ApprovePostcondition ==
    \A c \in {"c1"} :
        LET d == loc[c].doc
            v == loc[c].ver
        IN (Returned(c, "approve") /\ stage_at(loc[c].snap, md_key(d, v)) = DRAFT)
           => /\ loc[c].result.kind = "ok"
              /\ stage_at(store, md_key(d, v)) = FINAL
              /\ stage_at(store, json_key(d, v)) = FINAL
              /\ \A w \in FinalVersions(loc[c].snap, d) :
                    /\ stage_at(store, md_key(d, w)) = ARCHIVED
                    /\ stage_at(store, json_key(d, w)) = ARCHIVED
              /\ pointer_key(d) \in DOMAIN store
              /\ store[pointer_key(d)].content = v

C5_Witness ==
    /\ Returned("c1", "approve")
    /\ loc["c1"].result.kind = "ok"
    /\ loc["c1"].ver = 2
    /\ FinalVersions(loc["c1"].snap, "d1") = {1}
    /\ stage_at(store, json_key("d1", 1)) = ARCHIVED
    /\ store[pointer_key("d1")].content = 2

\* C8: get_final_document_content(doc, use_cache=True) after a successful
\* approve_document_version(doc, v) returns the content of v, whatever was
\* cached before the approval.  With one caller and no failure the pointer
\* is written by successful approvals only, so it names the version of the
\* last successful approval.
C8_FinalContentAfterApprove ==
    \A c \in {"c1"} :
        LET d == loc[c].doc
        IN (Returned(c, "getfinal") /\ loc[c].useCache
                /\ pointer_key(d) \in DOMAIN store)
           => /\ loc[c].result.kind = "ok"
              /\ loc[c].result.content
                    = version_content(d, store[pointer_key(d)].content)

\* the second of two cache-backed reads, with an approval of version 2 over
\* a FINAL version 1 of other content in between
C8_Witness ==
    /\ Returned("c1", "getfinal")
    /\ loc["c1"].useCache
    /\ miss_count = 2
    /\ pointer_key("d1") \in DOMAIN store
    /\ store[pointer_key("d1")].content = 2
    /\ stage_at(store, md_key("d1", 1)) = ARCHIVED
    /\ version_content("d1", 1) # version_content("d1", 2)
    /\ loc["c1"].result.content = version_content("d1", 2)

\* C9: get_final_document_content(doc, use_cache=True) on a document with a
\* FINAL version: a call that finds no cached content reads the store and
\* leaves the content it returns in the cache; a call that finds cached
\* content returns it and makes no object-store call.
C9_CachedReadNoStoreCall ==
    \A c \in {"c1"} :
        LET d == loc[c].doc
            key == make_key("content", d)
        IN (Returned(c, "getfinal") /\ loc[c].useCache
                /\ FinalVersions(store, d) # {})
           => IF key \in DOMAIN loc[c].snapCache
              THEN /\ loc[c].ncalls = 0
                   /\ loc[c].result.content = loc[c].snapCache[key].value
                   /\ cache = loc[c].snapCache
              ELSE /\ loc[c].ncalls > 0
                   /\ loc[c].result.content # NoBody
                   /\ key \in DOMAIN cache
                   /\ cache[key].value = loc[c].result.content

\* the second call: one miss, then one hit without any object-store call
C9_Witness ==
    /\ Returned("c1", "getfinal")
    /\ loc["c1"].useCache
    /\ miss_count = 1
    /\ hit_count = 1
    /\ loc["c1"].ncalls = 0
    /\ loc["c1"].result.content # NoBody


(* ------- specification: one caller, any store the bucket may hold ------ *)

\* what the bucket may hold of a version's markdown artifact: nothing, an
\* object without stage tag, or an object a create or a transition has tagged
VersionStages == {"absent", "", DRAFT, FINAL, ARCHIVED}

\* the tag set create_document_version or transition_document_state has left
\* on an artifact of stage s
stored_tags(d, v, s) ==
    IF s = "" THEN EmptyMap
    ELSE IF s = DRAFT THEN create_tags(d, v, EmptyMap, 0)
    ELSE IF s = FINAL THEN new_tags(FINAL, DRAFT, EmptyMap, 0)
    ELSE new_tags(ARCHIVED, FINAL, EmptyMap, 0)

\* the objects of version v: the markdown artifact unless absent, and the
\* JSON artifact if has_json (with the markdown artifact's tags, or a
\* draft's tags when that artifact is gone)
version_objects(d, v, s, has_json) ==
    (IF s = "absent" THEN EmptyMap
     ELSE (md_key(d, v) :> [content |-> "A", tags |-> stored_tags(d, v, s)]))
    @@ (IF has_json
        THEN (json_key(d, v) :>
                [content |-> "JA",
                 tags |-> stored_tags(d, v, IF s = "absent" THEN DRAFT ELSE s)])
        ELSE EmptyMap)

RECURSIVE objects_of(_, _, _, _)
objects_of(d, n, stages, jsons) ==
    IF n = 0 THEN EmptyMap
    ELSE version_objects(d, n, stages[n], jsons[n])
            @@ objects_of(d, n - 1, stages, jsons)

\* the pointer object naming version v, none for NoVersion
pointer_object(d, v) ==
    IF v = NoVersion THEN EmptyMap
    ELSE (pointer_key(d) :> [content |-> v, tags |-> pointer_tags(d, v)])

\* any combination of versions and pointer, with or without cached content
InitStore ==
    /\ \E stages \in [Versions -> VersionStages], jsons \in [Versions -> BOOLEAN],
          ptr \in {NoVersion} \cup Versions :
         store = objects_of("d1", MaxVersion, stages, jsons) @@ pointer_object("d1", ptr)
    /\ \E cached \in BOOLEAN :
         cache = IF cached
                 THEN cache_set(EmptyMap, make_key("content", "d1"),
                                [md |-> "A", json |-> "JA"], 0)
                 ELSE EmptyMap
    /\ hit_count = 0
    /\ miss_count = 0
    /\ now = 0
    /\ loc = [c \in Callers |-> IdleLoc]

NextStore ==
    \/ StateSteps("c1")
    \/ ListSteps("c1")
    \/ ApproveSteps("c1")
    \/ StartGetCurrent("c1", "d1")
    \/ GetCurrentSteps("c1")

SpecStore == InitStore /\ [][NextStore]_vars

\* approve_document_version has returned from a call on a version whose
\* markdown artifact was not a DRAFT when the call started
ApproveOfNonDraft(c) ==
    /\ Returned(c, "approve")
    /\ stage_at(loc[c].snap, md_key(loc[c].doc, loc[c].ver)) # DRAFT

\* C6 as stated: approve_document_version on a version whose markdown
\* artifact is missing or has a stage other than DRAFT raises
\* InvalidStateTransitionError and changes no object and no cache entry.
C6_NonDraftRaisesInvalidTransition ==
    \A c \in {"c1"} :
        ApproveOfNonDraft(c)
        => /\ loc[c].result = Exc("InvalidStateTransitionError")
           /\ store = loc[c].snap
           /\ cache = loc[c].snapCache

\* C6 as the code has it: a missing markdown artifact raises
\* VersionNotFoundError, an existing one whose stage is not DRAFT (FINAL,
\* ARCHIVED, no stage) raises InvalidStateTransitionError; in both cases no
\* object (tags, pointer) and no cache entry changes.
C6_NonDraftRejected ==
    \A c \in {"c1"} :
        ApproveOfNonDraft(c)
        => /\ loc[c].result =
                 (IF md_key(loc[c].doc, loc[c].ver) \in DOMAIN loc[c].snap
                  THEN Exc("InvalidStateTransitionError")
                  ELSE Exc("VersionNotFoundError"))
           /\ store = loc[c].snap
           /\ cache = loc[c].snapCache

\* an approval of a FINAL version was refused while content was cached and
\* the pointer existed
C6_Witness ==
    /\ ApproveOfNonDraft("c1")
    /\ stage_at(loc["c1"].snap, md_key("d1", loc["c1"].ver)) = FINAL
    /\ loc["c1"].result = Exc("InvalidStateTransitionError")
    /\ make_key("content", "d1") \in DOMAIN cache
    /\ pointer_key("d1") \in DOMAIN store

\* C7: get_current_document_version returns a version whose markdown artifact
\* has stage FINAL whenever the document has one, and None when it has none,
\* whatever the pointer says.
C7_CurrentVersionIsFinal ==
    \A c \in {"c1"} :
        Returned(c, "getcur")
        => /\ loc[c].result.kind = "ok"
           /\ IF FinalVersions(store, loc[c].doc) = {}
              THEN loc[c].result.ver = NoVersion
              ELSE loc[c].result.ver \in FinalVersions(store, loc[c].doc)

\* the pointer names an existing version that is not FINAL and the scan
\* finds the FINAL one
C7_Witness ==
    /\ Returned("c1", "getcur")
    /\ pointer_key("d1") \in DOMAIN store
    /\ store[pointer_key("d1")].content = 1
    /\ stage_at(store, md_key("d1", 1)) = ARCHIVED
    /\ FinalVersions(store, "d1") = {2}
    /\ loc["c1"].result.ver = 2


(* ------ specification: create_document_version with failing writes ----- *)

NextFail ==
    \/ CreateSteps("c1")
    \/ \E exc \in StoreErrors : c_put_json_fails("c1", exc)
    \/ c_rollback("c1")
    \/ \E exc \in StoreErrors : c_rollback_fails("c1", exc)

SpecFail == Init /\ [][NextFail]_vars

\* C10: when the JSON write of create_document_version fails after the
\* markdown write succeeded, the call raises the error of the JSON write; if
\* the rollback's delete succeeded, neither artifact of the version exists
\* and a number the call had allocated is the next number allocated again.
C10_RollbackAfterJsonFailure ==
    \A c \in {"c1"} :
        LET d == loc[c].doc
            v == loc[c].ver
        IN (Returned(c, "create") /\ loc[c].rolled # "")
           => /\ loc[c].result = Exc(loc[c].err)
              /\ loc[c].err \in StoreErrors
              /\ loc[c].rolled = "deleted"
                 => /\ md_key(d, v) \notin DOMAIN store
                    /\ json_key(d, v) \notin DOMAIN store
                    /\ loc[c].auto => next_version_number(d) = v

\* version 2 was allocated over an existing version 1, its JSON write failed
\* and the rollback deleted its markdown artifact
C10_Witness ==
    /\ Returned("c1", "create")
    /\ loc["c1"].rolled = "deleted"
    /\ loc["c1"].auto
    /\ loc["c1"].ver = 2
    /\ loc["c1"].result = Exc("S3PermissionError")
    /\ md_key("d1", 1) \in DOMAIN store
    /\ md_key("d1", 2) \notin DOMAIN store
    /\ next_version_number("d1") = 2

(* ------- specification: two callers approve versions concurrently ------ *)

\* every version is a DRAFT with both artifacts, as create_document_version
\* leaves it; nothing is approved yet
InitConc ==
    /\ store = objects_of("d1", MaxVersion, [v \in Versions |-> DRAFT],
                          [v \in Versions |-> TRUE])
    /\ cache = EmptyMap
    /\ hit_count = 0
    /\ miss_count = 0
    /\ now = 0
    /\ loc = [c \in Callers |-> IdleLoc]

\* each caller calls approve_document_version once, on a version of its choice
NextConc ==
    \E c \in Callers :
        \/ /\ loc[c].op = "none"
           /\ \E version \in Versions, info \in ApproverInfos :
                 StartApprove(c, "d1", version, info)
        \/ StateSteps(c)
        \/ ListSteps(c)
        \/ ApproveBody(c)

SpecConc == InitConc /\ [][NextConc]_vars

\* C2: while two callers run approve_document_version on two DRAFT versions
\* of one document, with their reads and tag writes interleaved, no two
\* versions of the document have stage FINAL, at any time.
C2_AtMostOneFinalConcurrent ==
    \A v, w \in FinalVersions(store, "d1") : v = w


(* ------------- create_document_version under Spec ---------------------- *)

\* the version numbers of document d with an object in store st
versions_in(st, d) == {k[3] : k \in {j \in DOMAIN st : IsVersionKey(j, d)}}

\* the tags of an artifact without its state_changed_at timestamp
tags_but_timestamp(tags) ==
    [k \in (DOMAIN tags) \ {"state_changed_at"} |-> tags[k]]

\* C11: create_document_version with an explicit version whose markdown
\* artifact exists raises VersionAlreadyExistsError and writes or deletes no
\* object: contents and tags of the version are as before, whatever its stage.
C11_ExistingVersionNotOverwritten ==
    \A c \in {"c1"} :
        (Returned(c, "create") /\ ~loc[c].auto
            /\ md_key(loc[c].doc, loc[c].ver) \in DOMAIN loc[c].snap)
        => /\ loc[c].result = Exc("VersionAlreadyExistsError")
           /\ store = loc[c].snap

\* a create over version 1, which an approval of version 2 had archived,
\* with other content than version 1 holds
C11_Witness ==
    /\ Returned("c1", "create")
    /\ ~loc["c1"].auto
    /\ loc["c1"].ver = 1
    /\ loc["c1"].result = Exc("VersionAlreadyExistsError")
    /\ stage_at(loc["c1"].snap, md_key("d1", 1)) = ARCHIVED
    /\ stage_at(store, md_key("d1", 2)) = FINAL
    /\ loc["c1"].body.md # store[md_key("d1", 1)].content

\* C12: after a successful create_document_version both artifacts of the
\* returned version exist with the contents given and one tag set: stage
\* DRAFT, doc_id, version, created_at and the metadata under meta_ keys; no
\* other object is changed.
C12_CreatedVersionTagged ==
    \A c \in {"c1"} :
        LET d == loc[c].doc
            v == loc[c].result.ver
            mk == md_key(d, v)
            jk == json_key(d, v)
        IN (Returned(c, "create") /\ loc[c].result.kind = "ok")
           => /\ v = loc[c].ver
              /\ mk \in DOMAIN store /\ jk \in DOMAIN store
              /\ store[mk].content = loc[c].body.md
              /\ store[jk].content = loc[c].body.json
              /\ store[mk].tags = store[jk].tags
              /\ DOMAIN store[mk].tags =
                    {"stage", "doc_id", "version", "created_at"}
                        \cup {"meta_" \o m : m \in DOMAIN loc[c].meta}
              /\ store[mk].tags["stage"] = DRAFT
              /\ store[mk].tags["doc_id"] = d
              /\ store[mk].tags["version"] = v
              /\ \A m \in DOMAIN loc[c].meta :
                    store[mk].tags["meta_" \o m] = loc[c].meta[m]
              /\ DOMAIN store = DOMAIN loc[c].snap \cup {mk, jk}
              /\ \A k \in DOMAIN loc[c].snap : store[k] = loc[c].snap[k]

\* version 2 was created with metadata beside a FINAL version 1
C12_Witness ==
    /\ Returned("c1", "create")
    /\ loc["c1"].result.kind = "ok"
    /\ loc["c1"].result.ver = 2
    /\ loc["c1"].meta # EmptyMap
    /\ stage_at(store, md_key("d1", 1)) = FINAL
    /\ "meta_approved_by" \in DOMAIN store[json_key("d1", 2)].tags

\* C13: with one caller and no failure, between the calls both artifacts of
\* every version exist and carry the same tags, state_changed_at aside.
C13_ArtifactPairsAgree ==
    loc["c1"].pc = "idle"
    => \A v \in versions_in(store, "d1") :
          /\ md_key("d1", v) \in DOMAIN store
          /\ json_key("d1", v) \in DOMAIN store
          /\ tags_but_timestamp(store[md_key("d1", v)].tags)
                = tags_but_timestamp(store[json_key("d1", v)].tags)

\* version 1 archived and version 2 approved with approver metadata
C13_Witness ==
    /\ loc["c1"].pc = "idle"
    /\ stage_at(store, json_key("d1", 1)) = ARCHIVED
    /\ stage_at(store, json_key("d1", 2)) = FINAL
    /\ "meta_approved_by" \in DOMAIN store[json_key("d1", 2)].tags
    /\ tag_previous_stage(store[json_key("d1", 2)].tags) = DRAFT

\* C14: the number create_document_version allocates is 1 for a document
\* without version objects and the highest existing number plus 1 otherwise,
\* so it is positive and above every version existing at the allocation.
C14_AllocatedNumberIsMaxPlusOne ==
    \A c \in {"c1"} :
        LET vs == versions_in(loc[c].snap, loc[c].doc)
        IN (Returned(c, "create") /\ loc[c].auto)
           => /\ loc[c].ver >= 1
              /\ vs = {} => loc[c].ver = 1
              /\ \A w \in vs : loc[c].ver > w
              /\ vs # {} => loc[c].ver - 1 \in vs
              /\ loc[c].result = OkVersion(loc[c].ver)

\* number 2 was allocated over version 1
C14_Witness ==
    /\ Returned("c1", "create")
    /\ loc["c1"].auto
    /\ versions_in(loc["c1"].snap, "d1") = {1}
    /\ loc["c1"].result = OkVersion(2)


(* ------- specification: two callers create versions concurrently ------- *)

\* the steps of create_document_version after the call
CreateBody(c) ==
    \/ c_get_next_version_number(c)
    \/ c_object_exists(c)
    \/ c_put_md(c)
    \/ c_put_json(c)

\* each caller calls create_document_version once, without a version
NextCreateConc ==
    \E c \in Callers :
        \/ /\ loc[c].op = "none"
           /\ \E body \in Bodies, metadata \in Metas :
                 StartCreate(c, "d1", body, NoVersion, metadata)
        \/ CreateBody(c)

SpecCreateConc == Init /\ [][NextCreateConc]_vars

\* caller c's create returned the version whose artifacts hold what c wrote
CreateWon(c) ==
    LET d == loc[c].doc
        v == loc[c].ver
    IN /\ loc[c].result = OkVersion(v)
       /\ md_key(d, v) \in DOMAIN store
       /\ json_key(d, v) \in DOMAIN store
       /\ store[md_key(d, v)] =
             [content |-> loc[c].body.md, tags |-> create_tags(d, v, loc[c].meta, now)]
       /\ store[json_key(d, v)] =
             [content |-> loc[c].body.json, tags |-> create_tags(d, v, loc[c].meta, now)]

\* C15: when two concurrent create_document_version calls have allocated the
\* same number, one of them returns the version with its artifacts as it
\* wrote them and the other raises VersionAlreadyExistsError.
C15_OneCreateWins ==
    (/\ Returned("c1", "create") /\ Returned("c2", "create")
     /\ loc["c1"].auto /\ loc["c2"].auto
     /\ loc["c1"].ver = loc["c2"].ver)
    => \E w \in Callers :
          /\ CreateWon(w)
          /\ \A l \in Callers \ {w} :
                loc[l].result = Exc("VersionAlreadyExistsError")


(* ------ specification: the object-store adapter and its retry ---------- *)

\* the functions of s3_ops a caller reaches
AdapterOps ==
    { "list_objects_with_prefix", "get_object_content", "put_object_content",
      "get_object_tags", "put_object_tags", "object_exists", "delete_object" }

\* the functions decorated with @retry_with_backoff
decorated(op) == op # "delete_object"

\* retry_with_backoff(max_attempts=3, ...) on every decorated function
max_attempts == 3

\* what the backend answers to one request: success, a throttled or failed
\* connection (transient), or an error code that will not go away
Faults ==
    { "none", "SlowDown", "EndpointConnectionError",
      "NoSuchKey", "NoSuchBucket", "AccessDenied" }
TransientFaults == {"SlowDown", "EndpointConnectionError"}

\* the botocore exception class of a fault
raw_exception(f) ==
    IF f = "EndpointConnectionError" THEN "BotoCoreError" ELSE "ClientError"

\* the except clauses of the adapter function: the exception that leaves the
\* function for a fault, "" when the function returns normally
\* (object_exists returns False for NoSuchKey/404)
converted(op, f) ==
    IF f = "none" THEN ""
    ELSE IF raw_exception(f) # "ClientError" THEN "S3OperationError"
    ELSE IF f = "NoSuchKey" /\ op = "object_exists" THEN ""
    ELSE IF f = "NoSuchKey"
            /\ op \in {"get_object_content", "get_object_tags", "put_object_tags"}
         THEN "S3ObjectNotFoundError"
    ELSE IF f = "NoSuchBucket" THEN "S3BucketNotFoundError"
    ELSE IF f = "AccessDenied" THEN "S3PermissionError"
    ELSE "S3OperationError"

\* retry_with_backoff(exceptions=(ClientError, BotoCoreError)): the classes
\* its except clause catches; the S3*Error classes derive from DocStoreError
retried_exceptions == {"ClientError", "BotoCoreError"}

\* an adapter function is called
StartAdapter(c, op) ==
    /\ loc[c].pc = "idle"
    /\ loc' = [loc EXCEPT ![c] =
         [IdleLoc EXCEPT !.op = "adapter", !.adOp = op, !.pc = "ad_try"]]
    /\ UNCHANGED <<store, cache, hit_count, miss_count, now>>

\* one attempt of the wrapper's loop: func(*args) returns, or raises an
\* exception that the wrapper retries, gives up on after max_attempts, or
\* does not catch
ad_try(c, f) ==
    LET l == [Called(loc[c]) EXCEPT !.fault = f]
        exc == converted(l.adOp, f)
    IN
    /\ loc[c].pc = "ad_try"
    /\ loc' = [loc EXCEPT ![c] =
         IF exc = "" THEN Finish(l, Ok)
         ELSE IF decorated(l.adOp) /\ exc \in retried_exceptions
         THEN IF l.ncalls = max_attempts
              THEN Finish(l, Exc("RetryExhaustedError"))
              ELSE l
         ELSE Finish(l, Exc(exc))]
    /\ UNCHANGED <<store, cache, hit_count, miss_count, now>>

NextRetry ==
    \E c \in Callers :
        \/ \E op \in AdapterOps : StartAdapter(c, op)
        \/ \E f \in Faults : ad_try(c, f)

SpecRetry == Init /\ [][NextRetry]_vars

\* C16: an adapter call that ends on a transient backend failure has made 3
\* attempts; one that ends on object-not-found, container-not-found or
\* permission-denied has made exactly one.
C16_TransientFailuresRetried ==
    \A c \in Callers :
        (Returned(c, "adapter") /\ loc[c].result.kind = "exc")
        => IF loc[c].fault \in TransientFaults
           THEN loc[c].ncalls = max_attempts
           ELSE loc[c].ncalls = 1


(* ---------------- specification: the DocumentCache --------------------- *)

\* documents whose content is cached
CacheDocs == {"d1", "d2"}
\* list_type arguments of set_document_list: names of document states
CachedListTypes == {FINAL, DRAFT, ARCHIVED}
\* a cached document list and a cached health report
DocLists == {<<"d1">>, <<"d1", "d2">>}
HealthReports == {"healthy"}
\* set_system_health: health_ttl = ttl or 300
health_ttl == 300

Hit == [NoResult EXCEPT !.kind = "hit"]
Miss == [NoResult EXCEPT !.kind = "miss"]
Returns(b) == [NoResult EXCEPT !.kind = IF b THEN "True" ELSE "False"]

\* the record of a completed DocumentCache call: the call, its result and
\* the call before it
CacheCall(op, d, arg, res) ==
    [IdleLoc EXCEPT !.op = op, !.doc = d, !.arg = arg, !.result = res,
                    !.prev = loc["c1"].op, !.prevDoc = loc["c1"].doc]

\* the same with the cache and the counters the call found
Invalidation(op, d, res) ==
    [CacheCall(op, d, "", res) EXCEPT !.snapCache = cache,
                                      !.snapHit = hit_count,
                                      !.snapMiss = miss_count]

\* get_document_content, get_document_list, get_system_health: backend.get
\* and the hit or miss count
cache_lookup(op, d, arg, key) ==
    /\ hit_count + miss_count < MaxLookups
    /\ cache' = cache_after_get(cache, key, now)
    /\ IF cache_hit(cache, key, now)
       THEN /\ hit_count' = hit_count + 1
            /\ miss_count' = miss_count
            /\ loc' = [loc EXCEPT !["c1"] = CacheCall(op, d, arg, Hit)]
       ELSE /\ miss_count' = miss_count + 1
            /\ hit_count' = hit_count
            /\ loc' = [loc EXCEPT !["c1"] = CacheCall(op, d, arg, Miss)]
    /\ UNCHANGED <<store, now>>

\* set_document_content, set_document_list, set_system_health: backend.set
cache_store(op, d, arg, key, value, ttl) ==
    /\ cache' = cache_set_ttl(cache, key, value, ttl, now)
    /\ loc' = [loc EXCEPT !["c1"] = CacheCall(op, d, arg, Returns(TRUE))]
    /\ UNCHANGED <<store, hit_count, miss_count, now>>

get_document_content(d) ==
    cache_lookup("get_document_content", d, "", make_key("content", d))

set_document_content(d, content) ==
    cache_store("set_document_content", d, "", make_key("content", d), content, 0)

get_document_list(list_type) ==
    cache_lookup("get_document_list", "", list_type, make_key("list", list_type))

set_document_list(list_type, doc_list) ==
    cache_store("set_document_list", "", list_type, make_key("list", list_type),
                doc_list, 0)

get_system_health ==
    cache_lookup("get_system_health", "", "", make_key("health", "system"))

set_system_health(health) ==
    cache_store("set_system_health", "", "", make_key("health", "system"),
                health, health_ttl)

do_invalidate_document_counting(d) ==
    /\ cache' = invalidate_document(cache, d)
    /\ hit_count + miss_count < MaxLookups
    /\ miss_count' = IF make_key("content", d) \in DOMAIN cache
                     THEN miss_count ELSE miss_count + 1
    /\ loc' = [loc EXCEPT !["c1"] =
         Invalidation("invalidate_document", d,
                      Returns(make_key("content", d) \in DOMAIN cache))]
    /\ UNCHANGED <<store, hit_count, now>>

\* DocumentCache.invalidate_document(doc_id): backend.delete(content_key),
\* invalidate_lists(); the result of the delete is returned
do_invalidate_document(d) ==
    /\ cache' = invalidate_document(cache, d)
    /\ loc' = [loc EXCEPT !["c1"] =
         Invalidation("invalidate_document", d,
                      Returns(make_key("content", d) \in DOMAIN cache))]
    /\ UNCHANGED <<store, hit_count, miss_count, now>>

\* DocumentCache.invalidate_lists(): backend.delete for each of list_types
do_invalidate_lists ==
    LET gone == {make_key("list", t) : t \in list_types}
    IN
    /\ cache' = [k \in (DOMAIN cache) \ gone |-> cache[k]]
    /\ loc' = [loc EXCEPT !["c1"] =
         Invalidation("invalidate_lists", "", Returns(gone \cap DOMAIN cache # {}))]
    /\ UNCHANGED <<store, hit_count, miss_count, now>>

do_invalidate_all_keeping_counters ==
    /\ cache' = EmptyMap
    /\ loc' = [loc EXCEPT !["c1"] = Invalidation("invalidate_all", "", Returns(TRUE))]
    /\ UNCHANGED <<store, hit_count, miss_count, now>>

\* DocumentCache.invalidate_all(): MemoryCache.clear() returns True, then the
\* counters are reset
do_invalidate_all ==
    /\ cache' = EmptyMap
    /\ hit_count' = 0
    /\ miss_count' = 0
    /\ loc' = [loc EXCEPT !["c1"] = Invalidation("invalidate_all", "", Returns(TRUE))]
    /\ UNCHANGED <<store, now>>

NextCache ==
    \/ \E d \in CacheDocs : get_document_content(d)
    \/ \E d \in CacheDocs : set_document_content(d, [md |-> d, json |-> "J"])
    \/ \E t \in CachedListTypes : get_document_list(t)
    \/ \E t \in CachedListTypes, doc_list \in DocLists : set_document_list(t, doc_list)
    \/ get_system_health
    \/ \E h \in HealthReports : set_system_health(h)
    \/ \E d \in CacheDocs : do_invalidate_document(d)
    \/ do_invalidate_lists
    \/ do_invalidate_all

SpecCache == Init /\ [][NextCache]_vars


\* the last call of the cache's user
LastCall == loc["c1"]

\* C18: a second invalidate_document(doc_id) directly after a first one
\* raises nothing and leaves the cache entries and the hit and miss counters
\* as it found them, cached document or not.
C18_InvalidateTwiceIsNoOp ==
    (/\ LastCall.op = "invalidate_document"
     /\ LastCall.prev = "invalidate_document"
     /\ LastCall.prevDoc = LastCall.doc)
    => /\ LastCall.result = Returns(FALSE)
       /\ cache = LastCall.snapCache
       /\ hit_count = LastCall.snapHit
       /\ miss_count = LastCall.snapMiss

\* the second of two invalidations of d1 on a cache that holds the content
\* of d2, a list and counted lookups
C18_Witness ==
    /\ LastCall.op = "invalidate_document"
    /\ LastCall.prev = "invalidate_document"
    /\ LastCall.doc = "d1"
    /\ LastCall.prevDoc = "d1"
    /\ make_key("content", "d2") \in DOMAIN cache
    /\ make_key("list", ARCHIVED) \in DOMAIN cache
    /\ hit_count = 1
    /\ miss_count = 1

\* C19: after invalidate_document(d) the cache holds no content of d and no
\* document list of any list_type cached with set_document_list; the content
\* of the other documents and the health entry are as before.
C19_InvalidateDropsContentAndLists ==
    LastCall.op = "invalidate_document"
    => /\ make_key("content", LastCall.doc) \notin DOMAIN cache
       /\ \A t \in CachedListTypes : make_key("list", t) \notin DOMAIN cache
       /\ \A k \in DOMAIN LastCall.snapCache :
             k[1] \in {"content", "health"} /\ k # make_key("content", LastCall.doc)
             => k \in DOMAIN cache /\ cache[k] = LastCall.snapCache[k]

\* C20: after invalidate_all() the cache holds no entry and both counters
\* are 0; a lookup that follows it is a miss, the first one counted.
C20_InvalidateAllClears ==
    /\ LastCall.op = "invalidate_all"
       => /\ LastCall.result = Returns(TRUE)
          /\ cache = EmptyMap
          /\ hit_count = 0
          /\ miss_count = 0
    /\ (/\ LastCall.prev = "invalidate_all"
        /\ LastCall.op \in {"get_document_content", "get_document_list",
                            "get_system_health"})
       => /\ LastCall.result = Miss
          /\ hit_count = 0
          /\ miss_count = 1

\* content, a list and the health report were cached and lookups counted
\* when invalidate_all() was called
C20_Witness ==
    /\ LastCall.op = "invalidate_all"
    /\ make_key("content", "d1") \in DOMAIN LastCall.snapCache
    /\ make_key("list", FINAL) \in DOMAIN LastCall.snapCache
    /\ make_key("health", "system") \in DOMAIN LastCall.snapCache
    /\ LastCall.snapHit = 1
    /\ LastCall.snapMiss = 1
    /\ cache = EmptyMap


(* ------- specification: the store over a cache backend that fails ------ *)

\* list_final_documents: the documents with a FINAL markdown artifact, one
\* entry per document, taken from the first such key of the listing
final_docs(st, d) ==
    LET fs == FinalVersions(st, d)
    IN IF fs = {} THEN <<>>
       ELSE LET v == CHOOSE m \in fs : \A w \in fs : m <= w
            IN << [doc_id |-> d, version |-> v, tags |-> st[md_key(d, v)].tags] >>

(* listings *)

\* list_objects_with_prefix: max_keys
max_keys == 1000

\* the key is under the prefix: "raw/", "processed/" or the empty prefix
under_prefix(k, prefix) ==
    \/ prefix = ""
    \/ prefix = "raw/" /\ k[2] = "raw"
    \/ prefix = "processed/" /\ k[2] \in {"md", "json", "ptr"}

\* document ids in the order of their names
DocNames ==
    <<"d1", "d2", "d3", "d4", "d5", "d6", "d7", "d8", "d9", "da", "db", "dc">>
DocIndex(d) == CHOOSE i \in 1..Len(DocNames) : DocNames[i] = d

\* the place of a key in the listing, which S3 returns in the order of the
\* key strings: processed/ before raw/, then the document, then
\* current_version.txt before v{n}/output.json before v{n}/output.md
key_rank(k) ==
    (IF k[2] = "raw" THEN Len(DocNames) * (2 * MaxVersion + 2) ELSE 0)
    + (DocIndex(k[1]) - 1) * (2 * MaxVersion + 2)
    + (IF k[2] \in {"md", "json"} THEN 2 * k[3] - 1 ELSE 0)
    + (IF k[2] = "md" THEN 1 ELSE 0)

RECURSIVE sorted_keys(_)
sorted_keys(ks) ==
    IF ks = {} THEN <<>>
    ELSE LET m == CHOOSE k \in ks : \A j \in ks : key_rank(k) <= key_rank(j)
         IN <<m>> \o sorted_keys(ks \ {m})

\* seq[:n] for n >= 0
first_n(seq, n) == SubSeq(seq, 1, IF Len(seq) < n THEN Len(seq) ELSE n)

\* list_objects_with_prefix(bucket, prefix): the keys, at most max_keys
list_objects_with_prefix(st, prefix) ==
    first_n(sorted_keys({k \in DOMAIN st : under_prefix(k, prefix)}), max_keys)

\* list_documents_by_state: the loop over list_objects_with_tags; the length
\* is compared with max_results after each append
RECURSIVE by_state_loop(_, _, _, _, _)
by_state_loop(st, keys, states, max_results, results) ==
    IF keys = <<>> THEN results
    ELSE LET k == Head(keys)
             stage_tag == tag_stage(st[k].tags)
         IN IF stage_tag # "" /\ stage_tag \in DocumentState /\ stage_tag \in states
            THEN LET r == Append(results, k)
                 IN IF Len(r) >= max_results THEN r
                    ELSE by_state_loop(st, Tail(keys), states, max_results, r)
            ELSE by_state_loop(st, Tail(keys), states, max_results, results)

\* list_documents_by_state(states, prefix, max_results): the matching keys
list_documents_by_state(st, states, prefix, max_results) ==
    by_state_loop(st, list_objects_with_prefix(st, prefix), states, max_results, <<>>)

\* doc_info of a markdown artifact
doc_info(st, k) == [doc_id |-> k[1], version |-> k[3], tags |-> st[k].tags]

\* x[name] or '' as a sort key: a timestamp, or below every timestamp
sort_key(e, name) == IF name \in DOMAIN e.tags THEN e.tags[name][2] ELSE -1

\* list.sort(key=..., reverse=True): descending and stable
RECURSIVE insert_desc(_, _, _)
insert_desc(sorted, e, name) ==
    IF sorted = <<>> THEN <<e>>
    ELSE IF sort_key(Head(sorted), name) >= sort_key(e, name)
    THEN <<Head(sorted)>> \o insert_desc(Tail(sorted), e, name)
    ELSE <<e>> \o sorted

RECURSIVE sort_desc(_, _, _)
sort_desc(seq, name, sorted) ==
    IF seq = <<>> THEN sorted
    ELSE sort_desc(Tail(seq), name, insert_desc(sorted, Head(seq), name))

\* list_draft_documents: the loop over the DRAFT objects; every markdown
\* artifact gives an entry, the length is compared with limit after each
\* append
RECURSIVE draft_loop(_, _, _, _)
draft_loop(st, keys, limit, draft_docs) ==
    IF keys = <<>> THEN draft_docs
    ELSE LET k == Head(keys)
         IN IF k[2] = "md"
            THEN LET r == Append(draft_docs, doc_info(st, k))
                 IN IF Len(r) >= limit THEN r
                    ELSE draft_loop(st, Tail(keys), limit, r)
            ELSE draft_loop(st, Tail(keys), limit, draft_docs)

\* list_draft_documents(limit)
list_draft_scan(st, limit) ==
    sort_desc(draft_loop(st, list_documents_by_state(st, {DRAFT}, "processed/", limit * 2),
                         limit, <<>>),
              "created_at", <<>>)

\* list_final_documents: the loop over the FINAL objects; the first markdown
\* artifact of a document gives an entry
RECURSIVE final_loop(_, _, _, _, _)
final_loop(st, keys, limit, final_docs_, seen_docs) ==
    IF keys = <<>> THEN final_docs_
    ELSE LET k == Head(keys)
         IN IF k[2] = "md" /\ k[1] \notin seen_docs
            THEN LET r == Append(final_docs_, doc_info(st, k))
                 IN IF Len(r) >= limit THEN r
                    ELSE final_loop(st, Tail(keys), limit, r, seen_docs \cup {k[1]})
            ELSE final_loop(st, Tail(keys), limit, final_docs_, seen_docs)

\* list_final_documents(limit) without a cached list
list_final_scan(st, limit) ==
    sort_desc(final_loop(st, list_documents_by_state(st, {FINAL}, "processed/", limit * 2),
                         limit, <<>>, {}),
              "approved_at", <<>>)

\* list_final_documents: the default of limit
default_final_limit == 1000

\* list_final_documents(limit, use_cache) is called
StartListFinal(c, use_cache, limit) ==
    /\ loc[c].pc = "idle"
    /\ use_cache => hit_count + miss_count < MaxLookups
    /\ loc' = [loc EXCEPT ![c] =
         [IdleLoc EXCEPT !.op = "listfinal", !.useCache = use_cache,
                         !.limit = limit,
                         !.pc = IF use_cache THEN "lf_cache_get" ELSE "lf_scan",
                         !.snap = store, !.snapCache = cache]]
    /\ UNCHANGED <<store, cache, hit_count, miss_count, now>>

\* list_final_documents: cache.get_document_list('final'); of a hit the first
\* limit entries are returned
lf_cache_get(c) ==
    LET key == make_key("list", FINAL)
    IN
    /\ loc[c].pc = "lf_cache_get"
    /\ cache' = cache_after_get(cache, key, now)
    /\ IF cache_hit(cache, key, now)
       THEN /\ hit_count' = hit_count + 1
            /\ miss_count' = miss_count
            /\ loc' = [loc EXCEPT ![c] =
                 Finish([loc[c] EXCEPT !.listed = first_n(cache[key].value, loc[c].limit)],
                        Ok)]
       ELSE /\ miss_count' = miss_count + 1
            /\ hit_count' = hit_count
            /\ loc' = [loc EXCEPT ![c] = [loc[c] EXCEPT !.pc = "lf_scan"]]
    /\ UNCHANGED <<store, now>>

\* list_final_documents: list_documents_by_state([FINAL], "processed/") and
\* the list built from it; it is cached if use_cache and not empty
lf_scan(c) ==
    /\ loc[c].pc = "lf_scan"
    /\ loc' = [loc EXCEPT ![c] =
         LET l == [Called(loc[c]) EXCEPT
                      !.listed = list_final_scan(store, loc[c].limit)]
         IN IF l.useCache /\ l.listed # <<>>
            THEN [l EXCEPT !.pc = "lf_cache_set"]
            ELSE Finish(l, Ok)]
    /\ UNCHANGED <<store, cache, hit_count, miss_count, now>>

\* list_final_documents: cache.set_document_list('final', final_docs)
lf_cache_set(c) ==
    /\ loc[c].pc = "lf_cache_set"
    /\ cache' = cache_set(cache, make_key("list", FINAL), loc[c].listed, now)
    /\ loc' = [loc EXCEPT ![c] = Finish(loc[c], Ok)]
    /\ UNCHANGED <<store, hit_count, miss_count, now>>

ListFinalSteps(c) ==
    \/ \E use_cache \in BOOLEAN : StartListFinal(c, use_cache, default_final_limit)
    \/ lf_cache_get(c)
    \/ lf_scan(c)
    \/ lf_cache_set(c)

\* the running call has seen a cache backend operation fail
CacheFailed(l) == [l EXCEPT !.cacheFailed = TRUE]

gf_cache_get_fails_raising(c) ==
    /\ loc[c].pc = "gf_cache_get"
    /\ loc' = [loc EXCEPT ![c] = Raise(CacheFailed(loc[c]), "CacheError")]
    /\ UNCHANGED <<store, cache, hit_count, miss_count, now>>

\* get_final_document_content: backend.get fails and returns None, which
\* get_document_content counts as a miss
gf_cache_get_fails(c) ==
    /\ loc[c].pc = "gf_cache_get"
    /\ miss_count' = miss_count + 1
    /\ loc' = [loc EXCEPT ![c] =
         [CacheFailed(loc[c]) EXCEPT !.pc = "gc_ptr_exists", !.gcRet = "gf_content",
                                     !.gcPhase = "ptr"]]
    /\ UNCHANGED <<store, cache, hit_count, now>>

\* get_final_document_content: backend.set fails and returns False; the
\* content read is returned
gf_cache_set_fails(c) ==
    /\ loc[c].pc = "gf_cache_set"
    /\ loc' = [loc EXCEPT ![c] =
         Finish(CacheFailed(loc[c]), OkContent(loc[c].got))]
    /\ UNCHANGED <<store, cache, hit_count, miss_count, now>>

\* list_final_documents: backend.get fails and returns None
lf_cache_get_fails(c) ==
    /\ loc[c].pc = "lf_cache_get"
    /\ miss_count' = miss_count + 1
    /\ loc' = [loc EXCEPT ![c] = [CacheFailed(loc[c]) EXCEPT !.pc = "lf_scan"]]
    /\ UNCHANGED <<store, cache, hit_count, now>>

\* list_final_documents: backend.set fails and returns False
lf_cache_set_fails(c) ==
    /\ loc[c].pc = "lf_cache_set"
    /\ loc' = [loc EXCEPT ![c] = Finish(CacheFailed(loc[c]), Ok)]
    /\ UNCHANGED <<store, cache, hit_count, miss_count, now>>

\* approve_document_version: every backend.delete of invalidate_document
\* fails and returns False; True is returned
a_invalidate_fails(c) ==
    /\ loc[c].pc = "a_invalidate"
    /\ loc' = [loc EXCEPT ![c] = Finish(CacheFailed(loc[c]), Ok)]
    /\ UNCHANGED <<store, cache, hit_count, miss_count, now>>

CacheFailureSteps(c) ==
    \/ gf_cache_get_fails(c)
    \/ gf_cache_set_fails(c)
    \/ lf_cache_get_fails(c)
    \/ lf_cache_set_fails(c)
    \/ a_invalidate_fails(c)

NextCacheFail ==
    \/ StateSteps("c1")
    \/ ListSteps("c1")
    \/ CreateSteps("c1")
    \/ ApproveSteps("c1")
    \/ GetCurrentSteps("c1")
    \/ GetFinalSteps("c1")
    \/ ListFinalSteps("c1")
    \/ CacheFailureSteps("c1")

SpecCacheFail == Init /\ [][NextCacheFail]_vars

\* what get_final_document_content(d, use_cache=False) returns: the content
\* of the FINAL version, read from the object store, or no content
final_content_in_store(d) ==
    LET fs == FinalVersions(store, d)
    IN IF fs = {} THEN NoBody
       ELSE version_content(d, CHOOSE v \in fs : TRUE)

\* C17: when a cache backend operation fails during
\* get_final_document_content, list_final_documents or
\* approve_document_version (get returns nothing, set or delete reports
\* failure), the call raises no error and returns what it returns with an
\* empty cache: the content, or the list, read from the object store, or
\* True with the approval carried out in the object store.
C17_CacheFailureDegrades ==
    \A c \in {"c1"} :
        LET d == loc[c].doc
            v == loc[c].ver
        IN /\ (Returned(c, "getfinal") /\ loc[c].cacheFailed)
              => /\ loc[c].result.kind = "ok"
                 /\ loc[c].ncalls > 0
                 /\ loc[c].result.content = final_content_in_store(d)
           /\ (Returned(c, "listfinal") /\ loc[c].cacheFailed)
              => /\ loc[c].result.kind = "ok"
                 /\ loc[c].ncalls > 0
                 /\ loc[c].listed = final_docs(store, "d1")
           /\ (Returned(c, "approve") /\ loc[c].cacheFailed)
              => /\ loc[c].result.kind = "ok"
                 /\ FinalVersions(store, d) = {v}
                 /\ stage_at(store, json_key(d, v)) = FINAL
                 /\ store[pointer_key(d)].content = v

\* the cache holds the content of an archived version, the lookup fails, and
\* the content of the FINAL version is returned from the object store
C17_Witness ==
    LET key == make_key("content", "d1")
    IN /\ Returned("c1", "getfinal")
       /\ loc["c1"].cacheFailed
       /\ key \in DOMAIN loc["c1"].snapCache
       /\ loc["c1"].snapCache[key].value # loc["c1"].result.content
       /\ loc["c1"].result.content # NoBody

\* a failed lookup of the cached list; the list is read from the object store
C17_WitnessList ==
    /\ Returned("c1", "listfinal")
    /\ loc["c1"].cacheFailed
    /\ loc["c1"].listed # <<>>

\* a failed invalidation at the end of an approval that returns True
C17_WitnessApprove ==
    /\ Returned("c1", "approve")
    /\ loc["c1"].cacheFailed
    /\ make_key("content", "d1") \in DOMAIN cache


(* ------------- the state manager under SpecFSM, continued ------------- *)

\* C21: get_document_state(key) returns the stored state when the stage tag
\* is one of the seven state values, returns None without raising when the
\* tag is absent or is any other value, raises DocumentNotFoundError when the
\* object does not exist, and leaves the object's tags as they were.
C21_GetStateReadsStage ==
    \A c \in {"c1"} :
        LET k == loc[c].key
        IN Returned(c, "getstate")
           => /\ store = loc[c].snap
              /\ IF k \notin DOMAIN loc[c].snap
                 THEN loc[c].result = Exc("DocumentNotFoundError")
                 ELSE LET s == tag_stage(loc[c].snap[k].tags)
                      IN /\ loc[c].result.kind = "ok"
                         /\ loc[c].result.state =
                               (IF s \in DocumentState THEN s ELSE NoState)

\* a stage tag outside the enumeration is answered with None
C21_Witness ==
    /\ Returned("c1", "getstate")
    /\ loc["c1"].key \in DOMAIN store
    /\ tag_stage(store[loc["c1"].key].tags) = "bogus"
    /\ loc["c1"].result = OkState(NoState)

\* caller c has returned from a forced transition or a reset of an object
\* that exists
ForcedDone(c) ==
    /\ loc[c].pc = "idle"
    /\ loc[c].result.kind # "none"
    /\ \/ loc[c].op = "transition" /\ loc[c].force
       \/ loc[c].op = "reset"
    /\ loc[c].key \in DOMAIN loc[c].snap

\* C26: reset_document_state(key) and a transition with force=True on an
\* existing object succeed from every state and from no state, for every
\* target state; after a reset the stage is the target (RAW by default),
\* previous_stage is the prior state, absent if there was none, and the
\* metadata holds the reset reason and the state reset from.
C26_ForcedAlwaysSucceeds ==
    \A c \in {"c1"} :
        LET k == loc[c].key
            s == parse_state(tag_stage(loc[c].snap[k].tags))
            t == store[k].tags
        IN ForcedDone(c)
           => /\ loc[c].result = Ok
              /\ tag_stage(t) = loc[c].to
              /\ IF s = NoState THEN "previous_stage" \notin DOMAIN t
                 ELSE tag_previous_stage(t) = s
              /\ loc[c].op = "reset"
                 => /\ "meta_reset_reason" \in DOMAIN t
                    /\ t["meta_reset_reason"] =
                          (IF loc[c].reason = "" THEN "Manual reset" ELSE loc[c].reason)
                    /\ IF s = NoState THEN "meta_reset_from" \notin DOMAIN t
                       ELSE /\ "meta_reset_from" \in DOMAIN t
                            /\ t["meta_reset_from"] = s

\* a reset to RAW of a FINAL object, a pair that is not an edge of the graph
C26_Witness ==
    /\ ForcedDone("c1")
    /\ loc["c1"].op = "reset"
    /\ loc["c1"].to = RAW
    /\ tag_stage(loc["c1"].snap[loc["c1"].key].tags) = FINAL
    /\ tag_stage(store[loc["c1"].key].tags) = RAW
    /\ store[loc["c1"].key].tags["meta_reset_from"] = FINAL

\* C27: transition(key, FINAL) without force and without metadata on a DRAFT
\* or ARCHIVED object does not change its stage to FINAL.
C27_FinalRequiresApprovalMetadata ==
    \A c \in {"c1"} :
        LET k == loc[c].key
        IN (UnforcedDone(c) /\ loc[c].to = FINAL /\ loc[c].meta = EmptyMap
               /\ tag_stage(loc[c].snap[k].tags) \in {DRAFT, ARCHIVED})
           => tag_stage(store[k].tags) # FINAL


(* ------- specification: two callers mark the same raw document -------- *)

\* each caller calls mark_document_processing("d1") once, with its own
\* processor_info
NextMarkConc ==
    \/ /\ loc["c1"].op = "none"
       /\ StartMark("c1", "d1", ("processor" :> "w1"))
    \/ /\ loc["c2"].op = "none"
       /\ StartMark("c2", "d1", ("started_by" :> "p2"))
    \/ \E c \in Callers :
          \/ gs_object_exists(c)
          \/ gs_get_object_tags(c)
          \/ tr_put_object_tags(c)
    \/ Tick

SpecMarkConc == InitFSM /\ [][NextMarkConc]_vars

\* C29: two unforced transitions of the same key can both pass validation
\* and both return True: whenever a call returns True, the stored tag set is
\* exactly the tag set of that call, so after both have returned the tags are
\* those of the call that wrote last and nothing of the other call is left.
C29_LastWriterWins ==
    [][\A c \in Callers :
          (loc[c].pc = "tr_put" /\ loc'[c].pc = "idle" /\ loc'[c].result = Ok)
          => store'[loc[c].trKey].tags =
                new_tags(loc[c].trTo, loc[c].gsVal, loc[c].trMeta, now)]_vars

\* both calls have returned True for a RAW document; the tags name RAW as the
\* previous stage and carry the metadata of c2 only
C29_Witness ==
    /\ Returned("c1", "mark") /\ loc["c1"].result = Ok
    /\ Returned("c2", "mark") /\ loc["c2"].result = Ok
    /\ loc["c1"].snap = loc["c2"].snap
    /\ tag_stage(loc["c1"].snap[raw_key("d1")].tags) = RAW
    /\ tag_previous_stage(store[raw_key("d1")].tags) = RAW
    /\ "meta_processor" \notin DOMAIN store[raw_key("d1")].tags
    /\ "meta_started_by" \in DOMAIN store[raw_key("d1")].tags
    /\ store[raw_key("d1")].tags["meta_started_by"] = "p2"
    /\ store[raw_key("d1")].tags["meta_processing_started_at"]
          = loc["c2"].meta["processing_started_at"]
    /\ loc["c1"].meta["processing_started_at"]
          # loc["c2"].meta["processing_started_at"]


(* ------------ specification: the listings of two documents ------------ *)

\* limits a caller passes to the listings
Limits == 0..2

\* list_draft_documents(limit) is called
StartListDrafts(c, limit) ==
    /\ loc[c].pc = "idle"
    /\ loc' = [loc EXCEPT ![c] =
         [IdleLoc EXCEPT !.op = "listdraft", !.limit = limit, !.pc = "ld_scan",
                         !.snap = store, !.snapCache = cache]]
    /\ UNCHANGED <<store, cache, hit_count, miss_count, now>>

\* list_draft_documents: list_documents_by_state([DRAFT], "processed/",
\* limit * 2) and the list built from it
ld_scan(c) ==
    /\ loc[c].pc = "ld_scan"
    /\ loc' = [loc EXCEPT ![c] =
         Finish([Called(loc[c]) EXCEPT !.listed = list_draft_scan(store, loc[c].limit)],
                Ok)]
    /\ UNCHANGED <<store, cache, hit_count, miss_count, now>>

\* document d1 with any combination of versions, document d2 with at most
\* one version, no pointer, an empty cache
InitLists ==
    /\ \E stages \in [Versions -> VersionStages], jsons \in [Versions -> BOOLEAN],
          stage2 \in VersionStages, json2 \in BOOLEAN :
         store = objects_of("d1", MaxVersion, stages, jsons)
                    @@ version_objects("d2", 1, stage2, json2)
    /\ cache = EmptyMap
    /\ hit_count = 0
    /\ miss_count = 0
    /\ now = 0
    /\ loc = [c \in Callers |-> IdleLoc]

NextLists ==
    \/ \E limit \in Limits : StartListDrafts("c1", limit)
    \/ ld_scan("c1")
    \/ \E use_cache \in BOOLEAN, limit \in Limits : StartListFinal("c1", use_cache, limit)
    \/ lf_cache_get("c1")
    \/ lf_scan("c1")
    \/ lf_cache_set("c1")

SpecLists == InitLists /\ [][NextLists]_vars

\* the state the entries of a listing are in
ListedState(c) == IF loc[c].op = "listdraft" THEN DRAFT ELSE FINAL

\* C25: list_draft_documents(limit) and list_final_documents(limit) return
\* at most limit entries, each built from a markdown artifact in the listed
\* state, and no two entries for one document.
C25_ListsBoundedOnePerDocument ==
    \A c \in {"c1"} :
        LET L == loc[c].listed
        IN (Returned(c, "listdraft") \/ Returned(c, "listfinal"))
           => /\ Len(L) <= loc[c].limit
              /\ \A i \in 1..Len(L) :
                    /\ md_key(L[i].doc_id, L[i].version) \in DOMAIN store
                    /\ tag_stage(store[md_key(L[i].doc_id, L[i].version)].tags)
                          = ListedState(c)
              /\ \A i, j \in 1..Len(L) : i # j => L[i].doc_id # L[j].doc_id


(* ----------------- stuck objects, statistics, health ------------------ *)

\* datetime.fromisoformat(state_changed_str.replace('Z', '+00:00')) succeeds
timestamp_parses(x) == x[1] = "ts"

\* the parsed timestamp, in minutes
parse_timestamp(x) == x[2]

is_stuck_inclusive(tags, cutoff_time) ==
    \/ "state_changed_at" \notin DOMAIN tags
    \/ ~timestamp_parses(tags["state_changed_at"])
    \/ parse_timestamp(tags["state_changed_at"]) <= cutoff_time

\* find_stuck_documents: the test of one document in the state: no
\* timestamp, a timestamp that does not parse, or one before the cutoff
is_stuck(tags, cutoff_time) ==
    \/ "state_changed_at" \notin DOMAIN tags
    \/ ~timestamp_parses(tags["state_changed_at"])
    \/ parse_timestamp(tags["state_changed_at"]) < cutoff_time

\* list_documents_by_state: the default of max_results
default_max_results == 1000

RECURSIVE stuck_loop(_, _, _)
stuck_loop(st, documents, cutoff_time) ==
    IF documents = <<>> THEN <<>>
    ELSE (IF is_stuck(st[Head(documents)].tags, cutoff_time)
          THEN <<Head(documents)>> ELSE <<>>)
         \o stuck_loop(st, Tail(documents), cutoff_time)

\* find_stuck_documents(state, timeout_minutes, prefix) at time t: the keys
\* of the stuck documents
find_stuck_documents(st, state, timeout_minutes, prefix, t) ==
    stuck_loop(st, list_documents_by_state(st, {state}, prefix, default_max_results),
               t - timeout_minutes)

\* the elements of a sequence
Range(seq) == {seq[i] : i \in 1..Len(seq)}

\* get_state_statistics(prefix): a count for every state and for 'no_state';
\* a stage value that is not a key yet becomes a key of its own
get_state_statistics(st, prefix) ==
    LET objs == Range(list_objects_with_prefix(st, prefix))
        tagged == {k \in objs : tag_stage(st[k].tags) # ""}
        names == DocumentState \cup {"no_state"}
                    \cup {tag_stage(st[k].tags) : k \in tagged}
    IN [n \in names |->
          Cardinality({k \in tagged : tag_stage(st[k].tags) = n})
          + (IF n = "no_state" THEN Cardinality(objs \ tagged) ELSE 0)]

\* sum(stats.values())
RECURSIVE sum_values(_, _)
sum_values(stats, names) ==
    IF names = {} THEN 0
    ELSE LET n == CHOOSE x \in names : TRUE
         IN stats[n] + sum_values(stats, names \ {n})

\* get_system_health: timeout_minutes of the stuck scan
health_timeout_minutes == 10

health_status_lenient(total_docs, failed_docs, stuck_docs) ==
    IF failed_docs * 10 > total_docs THEN "unhealthy"
    ELSE IF failed_docs > 0 \/ stuck_docs > 0 THEN "degraded"
    ELSE "healthy"

\* get_system_health: the status; failed_docs > total_docs * 0.1 in integers
health_status(total_docs, failed_docs, stuck_docs) ==
    IF stuck_docs > 0 \/ failed_docs * 10 > total_docs THEN "unhealthy"
    ELSE IF failed_docs > 0 \/ stuck_docs > 0 THEN "degraded"
    ELSE "healthy"

\* get_system_health() at time t, the scans succeeding
get_system_health_status(st, t) ==
    LET stats == get_state_statistics(st, "")
        stuck_processing ==
            find_stuck_documents(st, PROCESSING, health_timeout_minutes, "", t)
    IN health_status(sum_values(stats, DOMAIN stats) - stats["no_state"],
                     stats[FAILED], Len(stuck_processing))

\* prefixes a caller passes
Prefixes == {"", "raw/", "processed/"}
\* timeouts a caller passes, in minutes
Timeouts == {2, 10}

\* find_stuck_documents(state, timeout_minutes, prefix) is called
StartFindStuck(c, state, timeout_minutes, prefix) ==
    /\ loc[c].pc = "idle"
    /\ loc' = [loc EXCEPT ![c] =
         [IdleLoc EXCEPT !.op = "findstuck", !.to = state, !.timeout = timeout_minutes,
                         !.prefix = prefix, !.pc = "fs_scan",
                         !.snap = store, !.snapCache = cache]]
    /\ UNCHANGED <<store, cache, hit_count, miss_count, now>>

\* find_stuck_documents: the cutoff, the scan and the loop
fs_scan(c) ==
    /\ loc[c].pc = "fs_scan"
    /\ loc' = [loc EXCEPT ![c] =
         Finish([Called(loc[c]) EXCEPT
                   !.listed = find_stuck_documents(store, loc[c].to, loc[c].timeout,
                                                   loc[c].prefix, now)],
                Ok)]
    /\ UNCHANGED <<store, cache, hit_count, miss_count, now>>

\* get_state_statistics(prefix) is called
StartStatistics(c, prefix) ==
    /\ loc[c].pc = "idle"
    /\ loc' = [loc EXCEPT ![c] =
         [IdleLoc EXCEPT !.op = "stats", !.prefix = prefix, !.pc = "st_scan",
                         !.snap = store, !.snapCache = cache]]
    /\ UNCHANGED <<store, cache, hit_count, miss_count, now>>

\* get_state_statistics: the scan and the counts
st_scan(c) ==
    /\ loc[c].pc = "st_scan"
    /\ loc' = [loc EXCEPT ![c] =
         Finish([Called(loc[c]) EXCEPT
                   !.stats = get_state_statistics(store, loc[c].prefix)],
                Ok)]
    /\ UNCHANGED <<store, cache, hit_count, miss_count, now>>

\* get_system_health() is called
StartHealth(c) ==
    /\ loc[c].pc = "idle"
    /\ loc' = [loc EXCEPT ![c] =
         [IdleLoc EXCEPT !.op = "health", !.pc = "h_scan",
                         !.snap = store, !.snapCache = cache]]
    /\ UNCHANGED <<store, cache, hit_count, miss_count, now>>

\* get_system_health: the statistics, the stuck scan and the status
h_scan(c) ==
    /\ loc[c].pc = "h_scan"
    /\ loc' = [loc EXCEPT ![c] =
         Finish([Called(loc[c]) EXCEPT !.status = get_system_health_status(store, now)],
                Ok)]
    /\ UNCHANGED <<store, cache, hit_count, miss_count, now>>

\* get_system_health: a scan raises; the handler returns the status 'error'
h_scan_fails(c, exc) ==
    /\ loc[c].pc = "h_scan"
    /\ loc' = [loc EXCEPT ![c] =
         Finish([Called(loc[c]) EXCEPT !.status = "error", !.err = exc], Ok)]
    /\ UNCHANGED <<store, cache, hit_count, miss_count, now>>

(* batch_mark_documents_processing *)

\* doc_ids a caller passes: distinct ids, "d3" has no raw object
BatchIds == {<<"d1", "d2">>, <<"d3", "d1">>, <<"d2", "d3", "d1">>}

\* batch_mark_documents_processing(doc_ids, processor_info) is called
StartBatch(c, doc_ids, processor_info) ==
    /\ loc[c].pc = "idle"
    /\ loc' = [loc EXCEPT ![c] =
         [IdleLoc EXCEPT !.op = "batch", !.ids = doc_ids, !.todo = doc_ids,
                         !.info = processor_info, !.pc = "bm_loop",
                         !.snap = store, !.snapCache = cache]]
    /\ UNCHANGED <<store, cache, hit_count, miss_count, now>>

\* batch_mark_documents_processing: the loop head; the next doc_id is passed
\* to mark_document_processing, or the results are returned
bm_loop(c) ==
    /\ loc[c].pc = "bm_loop"
    /\ loc' = [loc EXCEPT ![c] =
         IF loc[c].todo = <<>> THEN Finish(loc[c], Ok)
         ELSE MarkCall(loc[c], Head(loc[c].todo), loc[c].info, now, "bm_item_ok")]
    /\ UNCHANGED <<store, cache, hit_count, miss_count, now>>

\* batch_mark_documents_processing: results[doc_id] = success
bm_item_ok(c) ==
    /\ loc[c].pc = "bm_item_ok"
    /\ loc' = [loc EXCEPT ![c] =
         [loc[c] EXCEPT !.results = (Head(loc[c].todo) :> TRUE) @@ @,
                        !.todo = Tail(@), !.pc = "bm_loop"]]
    /\ UNCHANGED <<store, cache, hit_count, miss_count, now>>

bm_item_failed_aborting(c) ==
    /\ loc[c].pc = "bm_item_failed"
    /\ loc' = [loc EXCEPT ![c] =
         Finish([loc[c] EXCEPT !.results = (Head(loc[c].todo) :> FALSE) @@ @], Ok)]
    /\ UNCHANGED <<store, cache, hit_count, miss_count, now>>

\* batch_mark_documents_processing: the exception of the item is caught,
\* results[doc_id] = False
bm_item_failed(c) ==
    /\ loc[c].pc = "bm_item_failed"
    /\ loc' = [loc EXCEPT ![c] =
         [loc[c] EXCEPT !.results = (Head(loc[c].todo) :> FALSE) @@ @,
                        !.todo = Tail(@), !.err = "", !.pc = "bm_loop"]]
    /\ UNCHANGED <<store, cache, hit_count, miss_count, now>>

(* ------- specification: raw objects seen by the state manager --------- *)

\* the state_changed_at tag an object starts with: none, one that does not
\* parse, or the time 0
InitTimestamps == {"none", "garbage", "ts"}

\* the tags of an object whose stage tag is s
init_tags(s, ts) ==
    IF s = "" THEN EmptyMap
    ELSE ("stage" :> s)
         @@ (IF ts = "none" THEN EmptyMap
             ELSE IF ts = "garbage" THEN ("state_changed_at" :> <<"garbage", 0>>)
             ELSE ("state_changed_at" :> isoformat_Z(0)))

\* one object, or none for the stage "absent"
init_object(k, s, ts) ==
    IF s = "absent" THEN EmptyMap
    ELSE (k :> [content |-> "A", tags |-> init_tags(s, ts)])

\* the clock when the first call is made
StartTimes == {0, 10, 11}

\* the first raw object: absent, untagged, or any stage tag with any timestamp
InitFirst ==
    {init_object(raw_key("d1"), s, ts) :
        s \in (StageTags \ {""}), ts \in InitTimestamps}
    \cup {EmptyMap, init_object(raw_key("d1"), "", "none")}

\* the second raw object: absent or in one of a few stages
InitSecond ==
    {EmptyMap} \cup {init_object(raw_key("d2"), s, ts) :
                        s \in {PROCESSING, FAILED}, ts \in {"none", "ts"}}

\* an artifact under processed/: absent or in one of two stages
InitArtifact ==
    {EmptyMap} \cup {init_object(md_key("d1", 1), s, "ts") : s \in {PROCESSING, FAILED}}

InitStuck ==
    /\ \E o1 \in InitFirst, o2 \in InitSecond, o3 \in InitArtifact :
         store = o1 @@ o2 @@ o3
    /\ cache = EmptyMap
    /\ hit_count = 0
    /\ miss_count = 0
    /\ now \in StartTimes
    /\ loc = [c \in Callers |-> IdleLoc]

NextStuck ==
    \/ \E state \in DocumentState, timeout_minutes \in Timeouts, prefix \in Prefixes :
          StartFindStuck("c1", state, timeout_minutes, prefix)
    \/ fs_scan("c1")
    \/ \E prefix \in Prefixes : StartStatistics("c1", prefix)
    \/ st_scan("c1")

SpecStuck == InitStuck /\ [][NextStuck]_vars

(* ------------- specification: the health of the bucket ---------------- *)

\* nine PROCESSED raw objects of other documents
Fillers ==
    [k \in {raw_key(DocNames[i]) : i \in 4..12} |->
        [content |-> "A", tags |-> init_tags(PROCESSED, "ts")]]

InitHealth ==
    /\ \E o1 \in InitFirst, o2 \in InitSecond, fill \in BOOLEAN :
         store = o1 @@ o2 @@ (IF fill THEN Fillers ELSE EmptyMap)
    /\ cache = EmptyMap
    /\ hit_count = 0
    /\ miss_count = 0
    /\ now \in StartTimes
    /\ loc = [c \in Callers |-> IdleLoc]

NextHealth ==
    \/ StartHealth("c1")
    \/ h_scan("c1")
    \/ \E exc \in StoreErrors : h_scan_fails("c1", exc)

SpecHealth == InitHealth /\ [][NextHealth]_vars

(* ------------ specification: batches of raw documents ----------------- *)

InitBatch ==
    /\ \E o1 \in InitFirst, o2 \in InitSecond : store = o1 @@ o2
    /\ cache = EmptyMap
    /\ hit_count = 0
    /\ miss_count = 0
    /\ now = 0
    /\ loc = [c \in Callers |-> IdleLoc]

NextBatch ==
    \/ \E doc_ids \in BatchIds, processor_info \in ProcessorInfos :
          StartBatch("c1", doc_ids, processor_info)
    \/ bm_loop("c1")
    \/ gs_object_exists("c1")
    \/ gs_get_object_tags("c1")
    \/ tr_put_object_tags("c1")
    \/ bm_item_ok("c1")
    \/ bm_item_failed("c1")
    \/ Tick

SpecBatch == InitBatch /\ [][NextBatch]_vars


(* --------------------- the scans and the batch ------------------------ *)

\* the objects under the prefix whose stage tag is s
InStage(st, prefix, s) ==
    {k \in DOMAIN st : under_prefix(k, prefix) /\ tag_stage(st[k].tags) = s}

\* the objects in the state whose state_changed_at is missing, does not
\* parse, or is strictly before t - timeout_minutes
StuckObjects(st, state, timeout_minutes, prefix, t) ==
    {k \in InStage(st, prefix, state) :
        \/ "state_changed_at" \notin DOMAIN st[k].tags
        \/ st[k].tags["state_changed_at"][1] # "ts"
        \/ st[k].tags["state_changed_at"][2] < t - timeout_minutes}

\* C22: find_stuck_documents(state, timeout_minutes, prefix) returns exactly
\* the objects under the prefix whose stage is the state and whose
\* state_changed_at is missing, unparsable, or strictly older than now minus
\* the timeout, each once.
C22_FindStuckExact ==
    \A c \in {"c1"} :
        LET expected == StuckObjects(store, loc[c].to, loc[c].timeout,
                                     loc[c].prefix, now)
        IN Returned(c, "findstuck")
           => /\ loc[c].result = Ok
              /\ Range(loc[c].listed) = expected
              /\ Len(loc[c].listed) = Cardinality(expected)

\* at time 11 with a timeout of 10 the raw object of d1, PROCESSING since
\* time 0, is found; the PROCESSING artifact under processed/ is not, the
\* prefix being raw/
C22_Witness ==
    /\ Returned("c1", "findstuck")
    /\ now = 11 /\ loc["c1"].timeout = 10 /\ loc["c1"].prefix = "raw/"
    /\ loc["c1"].to = PROCESSING
    /\ raw_key("d1") \in Range(loc["c1"].listed)
    /\ "state_changed_at" \in DOMAIN store[raw_key("d1")].tags
    /\ store[raw_key("d1")].tags["state_changed_at"] = isoformat_Z(0)
    /\ md_key("d1", 1) \in InStage(store, "", PROCESSING)
    /\ md_key("d1", 1) \notin Range(loc["c1"].listed)

\* C28: get_state_statistics(prefix) returns for each of the seven states
\* the number of objects under the prefix with that stage, counts every
\* object without a stage tag or with an unrecognised stage value in the one
\* bucket no_state, and the counts sum to the number of objects.
C28_StatisticsOneUnknownBucket ==
    \A c \in {"c1"} :
        LET stats == loc[c].stats
            objs == {k \in DOMAIN store : under_prefix(k, loc[c].prefix)}
        IN Returned(c, "stats")
           => /\ DOMAIN stats = DocumentState \cup {"no_state"}
              /\ \A s \in DocumentState :
                    stats[s] = Cardinality(InStage(store, loc[c].prefix, s))
              /\ stats["no_state"] =
                    Cardinality({k \in objs : tag_stage(store[k].tags) \notin DocumentState})
              /\ sum_values(stats, DOMAIN stats) = Cardinality(objs)

\* the numbers get_system_health is described with
StuckNow == StuckObjects(store, PROCESSING, health_timeout_minutes, "", now)
FailedNow == InStage(store, "", FAILED)
StagedNow == {k \in DOMAIN store : tag_stage(store[k].tags) # ""}

\* the status follows the thresholds
HealthThresholds(status) ==
    /\ (StuckNow # {} \/ Cardinality(FailedNow) * 10 > Cardinality(StagedNow))
          => status # "healthy"
    /\ StuckNow # {} => status = "unhealthy"
    /\ (StuckNow = {} /\ FailedNow = {}) => status = "healthy"
    /\ status \in {"healthy", "degraded", "unhealthy"}

MarkApplies(st, d) ==
    /\ raw_key(d) \in DOMAIN st
    /\ LET s == parse_state(tag_stage(st[raw_key(d)].tags))
       IN s = NoState \/ <<s, PROCESSING>> \in GraphEdges

Crash(c) ==
    /\ loc[c].op = "approve"
    /\ loc[c].pc # "idle"
    /\ loc' = [loc EXCEPT ![c] = Finish(loc[c], Exc("Interrupted"))]
    /\ UNCHANGED <<store, cache, hit_count, miss_count, now>>

\* the approval of caller c has stopped before its end
Interrupted(c) ==
    /\ loc[c].pc = "idle"
    /\ loc[c].op = "approve"
    /\ loc[c].result = Exc("Interrupted")

\* caller c1 creates and approves versions until one approval stops; then
\* caller c2 reads
NextCrash ==
    \/ /\ ~Interrupted("c1")
       /\ \/ CreateSteps("c1")
          \/ ApproveSteps("c1")
          \/ StateSteps("c1")
          \/ ListSteps("c1")
    \/ Crash("c1")
    \/ /\ Interrupted("c1")
       /\ \/ StartGetCurrent("c2", "d1")
          \/ GetCurrentSteps("c2")
          \/ StateSteps("c2")
          \/ ListSteps("c2")

SpecCrash == Init /\ [][NextCrash]_vars

\* the approval of caller c stopped after both artifacts of the FINAL
\* version were archived and before the markdown artifact of its own version
\* was made FINAL
StoppedBetween(c) ==
    LET d == loc[c].doc
        olds == FinalVersions(loc[c].snap, d)
    IN /\ Interrupted(c)
       /\ olds # {}
       /\ \A w \in olds : /\ stage_at(store, md_key(d, w)) = ARCHIVED
                          /\ stage_at(store, json_key(d, w)) = ARCHIVED
       /\ stage_at(store, md_key(d, loc[c].ver)) # FINAL

RaisedClasses ==
    {"ClientError", "EndpointConnectionError", "ValueError", "KeyboardInterrupt"}

class_bases(e) ==
    IF e = "EndpointConnectionError"
    THEN {"EndpointConnectionError", "BotoCoreError", "Exception"}
    ELSE IF e = "KeyboardInterrupt" THEN {"KeyboardInterrupt"}
    ELSE {e, "Exception"}

\* `except exceptions as e` catches e
caught(e, exceptions) == class_bases(e) \cap exceptions # {}

\* backoff_factor ** attempt
RECURSIVE power(_, _)
power(b, e) == IF e = 0 THEN 1 ELSE b * power(b, e - 1)

min(a, b) == IF a <= b THEN a ELSE b

backoff_delay_uncapped(base_delay, backoff_factor, max_delay, attempt) ==
    base_delay * power(backoff_factor, attempt)

\* delay = min(base_delay * (backoff_factor ** attempt), max_delay)
backoff_delay(base_delay, backoff_factor, max_delay, attempt) ==
    min(base_delay * power(backoff_factor, attempt), max_delay)

\* the decorator arguments in the model
RetryAttempts == 1..3
BaseDelays == {1, 2}
BackoffFactors == {1, 2, 3}
MaxDelays == {3, 5}
ExceptionTuples == {{"Exception"}, {"ClientError", "BotoCoreError"}}
RetryFuncs == {"put_object_content", "get_object_tags"}

\* the wrapper of a decorated function is called
StartRetry(c, func, n, base_delay, max_delay, backoff_factor, exceptions) ==
    /\ loc[c].pc = "idle"
    /\ loc' = [loc EXCEPT ![c] =
         [IdleLoc EXCEPT !.op = "retry", !.pc = "rb_attempt",
            !.rb = [NoRetry EXCEPT !.func = func, !.max_attempts = n,
                      !.base_delay = base_delay, !.max_delay = max_delay,
                      !.backoff_factor = backoff_factor,
                      !.exceptions = exceptions]]]
    /\ UNCHANGED <<store, cache, hit_count, miss_count, now>>

\* one pass of `for attempt in range(max_attempts)`: func returns (raised = "")
\* or raises; an exception the except clause does not catch leaves the
\* wrapper, a caught one ends in RetryExhaustedError on the last attempt and
\* in time.sleep(delay) before the next attempt otherwise
rb_attempt(c, raised) ==
    LET l == loc[c]
        r == [l.rb EXCEPT !.calls = @ + 1]
    IN
    /\ l.pc = "rb_attempt"
    /\ loc' = [loc EXCEPT ![c] =
         IF raised = "" THEN Finish([l EXCEPT !.rb = r], Ok)
         ELSE IF ~caught(raised, r.exceptions)
         THEN Finish([l EXCEPT !.rb = r], Exc(raised))
         ELSE IF r.attempt = r.max_attempts - 1
         THEN Finish([l EXCEPT !.rb =
                        [r EXCEPT !.last_exception = raised,
                                  !.operation = r.func,
                                  !.attempts = r.max_attempts,
                                  !.last_error = raised]],
                     Exc("RetryExhaustedError"))
         ELSE [l EXCEPT !.rb =
                 [r EXCEPT !.last_exception = raised,
                           !.sleeps = Append(@, backoff_delay(r.base_delay,
                                         r.backoff_factor, r.max_delay, r.attempt)),
                           !.attempt = @ + 1]]]
    /\ UNCHANGED <<store, cache, hit_count, miss_count, now>>

NextBackoff ==
    \/ \E func \in RetryFuncs, n \in RetryAttempts, base_delay \in BaseDelays,
          max_delay \in MaxDelays, backoff_factor \in BackoffFactors,
          exceptions \in ExceptionTuples :
          StartRetry("c1", func, n, base_delay, max_delay, backoff_factor, exceptions)
    \/ \E raised \in {""} \cup RaisedClasses : rb_attempt("c1", raised)

SpecBackoff == Init /\ [][NextBackoff]_vars

\* the delays a wrapper has slept are the capped exponential ones, in order
ExpectedSleeps(r) ==
    \A i \in 1..Len(r.sleeps) :
        r.sleeps[i] = min(r.base_delay * power(r.backoff_factor, i - 1), r.max_delay)

\* C31: a wrapper with max_attempts = n calls the wrapped function at most n
\* times; it returns after k calls on the success of attempt k, lets an
\* exception outside the retryable set through after the attempt that raised
\* it, and after n retryable failures raises RetryExhaustedError with the
\* operation name, attempts = n and the last error, having slept n - 1 times,
\* the i-th time for min(base_delay * backoff_factor^(i-1), max_delay).
C31_RetryBounded ==
    \A c \in Callers :
        LET r == loc[c].rb IN
        loc[c].op = "retry" =>
            /\ r.calls <= r.max_attempts
            /\ ExpectedSleeps(r)
            /\ loc[c].pc = "rb_attempt" =>
                  r.calls = Len(r.sleeps) /\ r.calls < r.max_attempts
            /\ Returned(c, "retry") =>
                  /\ r.calls = Len(r.sleeps) + 1
                  /\ loc[c].result.kind = "exc"
                     /\ loc[c].result.exc = "RetryExhaustedError"
                     => /\ r.calls = r.max_attempts
                        /\ Len(r.sleeps) = r.max_attempts - 1
                        /\ r.operation = r.func
                        /\ r.attempts = r.max_attempts
                        /\ r.last_error = r.last_exception
                        /\ caught(r.last_error, r.exceptions)
                  /\ loc[c].result.kind = "exc"
                     /\ loc[c].result.exc # "RetryExhaustedError"
                     => ~caught(loc[c].result.exc, r.exceptions)

\* three retryable failures end in RetryExhaustedError after two sleeps, the
\* second one capped by max_delay
C31_Witness ==
    \E c \in Callers :
        /\ Returned(c, "retry")
        /\ loc[c].result.exc = "RetryExhaustedError"
        /\ loc[c].rb.max_attempts = 3
        /\ loc[c].rb.sleeps = <<2, 3>>
        /\ loc[c].rb.backoff_factor = 3

(* -------------- specification: the MemoryCache in time --------------- *)

\* last instant of the clock the in-process cache reads
MaxClock == 3

\* ttl arguments of MemoryCache.set; 0 stands for None (the default TTL)
Ttls == {0, 1, 2}

\* the call just made on the backend: its name, its key's document, what it
\* returned, the time it ran at, the cache it found, and for every key the
\* value, time and ttl of the last set that no delete followed
BackendCall(op, d, res, written) ==
    [IdleLoc EXCEPT !.op = op, !.doc = d, !.result = res,
                    !.at = now, !.snapCache = cache, !.written = written]

\* MemoryCache.set(key, value, ttl)
mc_set(d, value, ttl) ==
    /\ cache' = cache_set_ttl(cache, make_key("content", d), value, ttl, now)
    /\ loc' = [loc EXCEPT !["c1"] =
         BackendCall("set", d, Returns(TRUE),
                     (d :> [value |-> value, t0 |-> now, ttl |-> ttl])
                        @@ loc["c1"].written)]
    /\ UNCHANGED <<store, hit_count, miss_count, now>>

\* MemoryCache.get(key): None without entry, None and `del` for an expired
\* entry, the value otherwise
mc_get(d) ==
    LET key == make_key("content", d) IN
    /\ cache' = cache_after_get(cache, key, now)
    /\ loc' = [loc EXCEPT !["c1"] =
         BackendCall("get", d,
                     IF cache_hit(cache, key, now)
                     THEN OkContent(cache[key].value) ELSE Miss,
                     loc["c1"].written)]
    /\ UNCHANGED <<store, hit_count, miss_count, now>>

\* MemoryCache.exists(key): the same tests, True or False
mc_exists(d) ==
    LET key == make_key("content", d) IN
    /\ cache' = cache_after_get(cache, key, now)
    /\ loc' = [loc EXCEPT !["c1"] =
         BackendCall("exists", d, Returns(cache_hit(cache, key, now)),
                     loc["c1"].written)]
    /\ UNCHANGED <<store, hit_count, miss_count, now>>

\* MemoryCache.delete(key)
mc_delete(d) ==
    LET key == make_key("content", d) IN
    /\ cache' = cache_del(cache, key)
    /\ loc' = [loc EXCEPT !["c1"] =
         BackendCall("delete", d, Returns(key \in DOMAIN cache),
                     [k \in (DOMAIN loc["c1"].written) \ {d} |-> loc["c1"].written[k]])]
    /\ UNCHANGED <<store, hit_count, miss_count, now>>

\* datetime.utcnow() moves on between two calls
Elapse ==
    /\ now < MaxClock
    /\ now' = now + 1
    /\ UNCHANGED <<store, cache, hit_count, miss_count, loc>>

NextMemory ==
    \/ \E d \in CacheDocs, body \in Bodies, ttl \in Ttls : mc_set(d, body, ttl)
    \/ \E d \in CacheDocs : mc_get(d)
    \/ \E d \in CacheDocs : mc_exists(d)
    \/ \E d \in CacheDocs : mc_delete(d)
    \/ Elapse

SpecMemory == Init /\ [][NextMemory]_vars

\* C32: an entry set with a positive TTL at t0 and neither deleted nor
\* overwritten is returned by get and reported by exists at every time up to
\* t0 + TTL; at any later time get returns nothing, exists returns false and
\* the access removes the entry from the map. No get returns a value whose
\* entry has expired.
C32_LazyExpiry ==
    LET l == loc["c1"]
        key == make_key("content", l.doc)
        w == l.written[l.doc]
    IN
    (l.op \in {"get", "exists"} /\ l.doc \in DOMAIN l.written /\ w.ttl > 0)
    => IF l.at <= w.t0 + w.ttl
       THEN /\ l.result = IF l.op = "get" THEN OkContent(w.value) ELSE Returns(TRUE)
            /\ key \in DOMAIN cache
            /\ key \in DOMAIN l.snapCache
       ELSE /\ l.result = IF l.op = "get" THEN Miss ELSE Returns(FALSE)
            /\ key \notin DOMAIN cache

\* a get at t0 + TTL + 1 finds the entry in the map, returns nothing and
\* removes it
C32_Witness ==
    LET l == loc["c1"] IN
    /\ l.op = "get"
    /\ l.doc \in DOMAIN l.written
    /\ l.written[l.doc].ttl = 1
    /\ l.at = l.written[l.doc].t0 + 2
    /\ make_key("content", l.doc) \in DOMAIN l.snapCache
    /\ l.result = Miss

\* a get exactly at t0 + TTL still returns the value
C32_WitnessLive ==
    LET l == loc["c1"] IN
    /\ l.op = "get"
    /\ l.doc \in DOMAIN l.written
    /\ l.written[l.doc].ttl = 2
    /\ l.at = l.written[l.doc].t0 + 2
    /\ l.result.kind = "ok"

(* ------- specification: a raw document marked step by step ----------- *)

\* mark_document_processed: processing_info or {} with
\* 'processing_completed_at' set
processed_metadata(processing_info, t) ==
    ("processing_completed_at" :> isoformat_Z(t)) @@ processing_info

\* processing_info a caller passes to mark_document_processed
ProcessingInfos == {EmptyMap, ("pages" :> "45")}

\* mark_document_processed(doc_id, processing_info) is called
StartMarkProcessed(c, d, processing_info) ==
    /\ loc[c].pc = "idle"
    /\ loc' = [loc EXCEPT ![c] =
         [IdleLoc EXCEPT !.op = "processed", !.doc = d, !.key = raw_key(d),
                         !.to = PROCESSED,
                         !.meta = processed_metadata(processing_info, now),
                         !.trKey = raw_key(d), !.trTo = PROCESSED,
                         !.trMeta = processed_metadata(processing_info, now),
                         !.trRet = "ret_transition",
                         !.gsKey = raw_key(d), !.gsRet = "tr_put",
                         !.pc = "gs_exists",
                         !.prev = loc[c].op,
                         !.snap = store, !.snapCache = cache]]
    /\ UNCHANGED <<store, cache, hit_count, miss_count, now>>

NextMarkFlow ==
    \/ \E to_state \in DocumentState, metadata \in Metas, force \in BOOLEAN :
          StartTransition("c1", raw_key("d1"), to_state, metadata, force)
    \/ \E info \in ProcessorInfos : StartMark("c1", "d1", info)
    \/ \E info \in ProcessingInfos : StartMarkProcessed("c1", "d1", info)
    \/ gs_object_exists("c1")
    \/ gs_get_object_tags("c1")
    \/ tr_put_object_tags("c1")
    \/ Tick

SpecMarkFlow == InitFSM /\ [][NextMarkFlow]_vars

\* caller c has returned from an unforced transition (requested directly or
\* by one of the two mark operations) of an object that exists
UnforcedReturned(c) ==
    /\ loc[c].pc = "idle"
    /\ loc[c].op \in {"transition", "mark", "processed"}
    /\ loc[c].result.kind # "none"
    /\ ~loc[c].force
    /\ loc[c].key \in DOMAIN loc[c].snap

CreationTags == {"doc_id", "version", "created_at"}

\* C34: every artifact of a version carries the doc_id, version and
\* created_at tags that create_document_version wrote, in every stage the
\* version goes through, so that list_document_versions reads the same
\* created_at for it before and after an approval or an archival.
C34_TransitionsKeepCreationTags ==
    \A v \in Versions :
        \A k \in {md_key("d1", v), json_key("d1", v)} \cap DOMAIN store :
            CreationTags \subseteq DOMAIN store[k].tags

(* ------- specification: unforced transitions of two objects ----------- *)

\* the states of the processing flow and of the approval flow
IntakeStates == {RAW, PROCESSING, PROCESSED, FAILED}
OutputStates == {DRAFT, FINAL, ARCHIVED}

\* a raw document as uploaded (no stage tag, or a tag the enumeration does
\* not know) or anywhere in the processing flow, and a version's markdown
\* artifact anywhere in the approval flow
InitUnforced ==
    /\ \E s \in IntakeStates \cup {"", "bogus"}, o \in OutputStates :
         store = (raw_key("d1") :>
                    [content |-> "A",
                     tags |-> IF s = "" THEN EmptyMap
                              ELSE ("stage" :> s)
                                   @@ ("state_changed_at" :> isoformat_Z(0))])
                 @@ (md_key("d1", 1) :>
                    [content |-> "A",
                     tags |-> ("stage" :> o)
                                @@ ("state_changed_at" :> isoformat_Z(0))])
    /\ cache = EmptyMap
    /\ hit_count = 0
    /\ miss_count = 0
    /\ now = 0
    /\ loc = [c \in Callers |-> IdleLoc]

NextUnforced ==
    \/ \E key \in {raw_key("d1"), md_key("d1", 1)}, to_state \in DocumentState,
          metadata \in Metas :
          StartTransition("c1", key, to_state, metadata, FALSE)
    \/ gs_object_exists("c1")
    \/ gs_get_object_tags("c1")
    \/ tr_put_object_tags("c1")

SpecUnforced == InitUnforced /\ [][NextUnforced]_vars

\* C35 as stated: a raw-intake object is never in a state of the approval
\* flow and a version artifact is never in a state of the processing flow,
\* after any sequence of unforced transitions.
C35_IntakeAndOutputNeverMix ==
    /\ tag_stage(store[raw_key("d1")].tags) \notin OutputStates
    /\ tag_stage(store[md_key("d1", 1)].tags) \notin IntakeStates

\* C35, amended: no unforced transition takes an object whose stage is in
\* one of the two sets to a stage outside that set, so an object that once
\* had a stage of the processing flow never has one of the approval flow,
\* and conversely.
C35_StageSetsClosed ==
    [][\A k \in DOMAIN store :
          /\ tag_stage(store[k].tags) \in IntakeStates
                => tag_stage(store'[k].tags) \in IntakeStates
          /\ tag_stage(store[k].tags) \in OutputStates
                => tag_stage(store'[k].tags) \in OutputStates]_vars

\* an unforced transition of a PROCESSED raw document to FINAL was rejected
\* after the document had moved through the processing flow
C35_Witness ==
    /\ UnforcedDone("c1")
    /\ loc["c1"].key = raw_key("d1")
    /\ loc["c1"].to = FINAL
    /\ loc["c1"].result.exc = "InvalidStateTransitionError"
    /\ tag_stage(store[raw_key("d1")].tags) = PROCESSED
    /\ tag_previous_stage(store[raw_key("d1")].tags) = PROCESSING

(* ------ specification: an approval stops and is requested again ------ *)

\* caller c1 creates and approves versions until one approval stops; then
\* caller c2 requests the approval of the same version, and nothing
\* interrupts it
NextReapprove ==
    \/ /\ ~Interrupted("c1")
       /\ \/ CreateSteps("c1")
          \/ ApproveSteps("c1")
          \/ StateSteps("c1")
          \/ ListSteps("c1")
    \/ Crash("c1")
    \/ /\ Interrupted("c1")
       /\ \/ \E info \in ApproverInfos :
                StartApprove("c2", "d1", loc["c1"].ver, info)
          \/ ApproveBody("c2")
          \/ StateSteps("c2")
          \/ ListSteps("c2")

SpecReapprove == Init /\ [][NextReapprove]_vars

\* the second approval of the version whose first approval stopped between
\* the FINAL write of the markdown artifact and that of the JSON artifact
\* has returned
ReapprovedHalfFinal(c) ==
    LET d == loc[c].doc
        v == loc[c].ver
    IN /\ Interrupted("c1")
       /\ Returned(c, "approve")
       /\ d = loc["c1"].doc
       /\ v = loc["c1"].ver
       /\ stage_at(loc[c].snap, md_key(d, v)) = FINAL
       /\ stage_at(loc[c].snap, json_key(d, v)) = DRAFT

\* C36: when approve_document_version(doc, v) failed after making v's
\* markdown artifact FINAL and before making its JSON artifact FINAL, a
\* second, failure-free approve_document_version(doc, v) completes the
\* approval: both artifacts of v are FINAL and the pointer names v.
C36_RetryCompletesApproval ==
    \A c \in Callers :
        ReapprovedHalfFinal(c)
        => /\ loc[c].result.kind = "ok"
           /\ stage_at(store, md_key(loc[c].doc, loc[c].ver)) = FINAL
           /\ stage_at(store, json_key(loc[c].doc, loc[c].ver)) = FINAL
           /\ pointer_key(loc[c].doc) \in DOMAIN store
           /\ store[pointer_key(loc[c].doc)].content = loc[c].ver

(* ------------- the cached list of final documents -------------------- *)

\* C37: with no write and no invalidation in between, a
\* list_final_documents(limit, use_cache=True) returns what
\* list_final_documents(limit, use_cache=False) returns, whatever the limit
\* of the call that filled the cache.
C37_CachedListIndependentOfEarlierLimit ==
    (Returned("c1", "listfinal") /\ loc["c1"].useCache)
    => loc["c1"].listed = list_final_scan(store, loc["c1"].limit)

(* ------ specification: a cached read beside an approval --------------- *)

\* version 1 (content A) is FINAL and named by the pointer, version 2
\* (content B) is a draft; the cache is empty
InitReadApprove ==
    /\ store = version_objects("d1", 1, FINAL, TRUE)
               @@ [version_objects("d1", 2, DRAFT, TRUE) EXCEPT
                      ![md_key("d1", 2)].content = "B",
                      ![json_key("d1", 2)].content = "JB"]
               @@ pointer_object("d1", 1)
    /\ cache = EmptyMap
    /\ hit_count = 0
    /\ miss_count = 0
    /\ now = 0
    /\ loc = [c \in Callers |-> IdleLoc]

\* caller c1 reads the final content through the cache while caller c2
\* approves version 2 once
NextReadApprove ==
    \/ StartGetFinal("c1", "d1", TRUE)
    \/ gf_cache_get("c1")
    \/ GetCurrentSteps("c1")
    \/ gf_content("c1")
    \/ vc_object_exists("c1")
    \/ vc_get_md("c1")
    \/ vc_get_json("c1")
    \/ gf_cache_set("c1")
    \/ /\ loc["c2"].op = "none"
       /\ \E info \in ApproverInfos : StartApprove("c2", "d1", 2, info)
    \/ ApproveBody("c2")
    \/ \E c \in Callers : StateSteps(c) \/ ListSteps(c)

SpecReadApprove == InitReadApprove /\ [][NextReadApprove]_vars

\* C38: once a get_final_document_content(doc, use_cache=True) and the
\* approve_document_version(doc, v2) it ran beside have both returned, the
\* cache holds no content for doc other than v2's.
C38_NoStaleContentAfterApprove ==
    (/\ loc["c1"].pc = "idle"
     /\ Returned("c2", "approve")
     /\ loc["c2"].result.kind = "ok")
    => \/ make_key("content", "d1") \notin DOMAIN cache
       \/ cache[make_key("content", "d1")].value = [md |-> "B", json |-> "JB"]

(* ----- specification: approvals over versions a race has left -------- *)

\* the versions of the document in this specification
RaceVersions == 1..3

\* three complete versions, each a draft, FINAL or ARCHIVED (two concurrent
\* approvals leave two versions FINAL), with any pointer or none
InitRace ==
    /\ \E stages \in [RaceVersions -> {DRAFT, FINAL, ARCHIVED}],
          ptr \in {NoVersion} \cup RaceVersions :
         store = objects_of("d1", 3, stages, [v \in RaceVersions |-> TRUE])
                    @@ pointer_object("d1", ptr)
    /\ cache = EmptyMap
    /\ hit_count = 0
    /\ miss_count = 0
    /\ now = 0
    /\ loc = [c \in Callers |-> IdleLoc]

NextRace ==
    \/ \E version \in RaceVersions, info \in ApproverInfos :
          StartApprove("c1", "d1", version, info)
    \/ ApproveBody("c1")
    \/ StateSteps("c1")
    \/ ListSteps("c1")

SpecRace == InitRace /\ [][NextRace]_vars

\* the versions of d whose markdown artifact is FINAL in st
FinalAmong(st, d) == {v \in RaceVersions : stage_at(st, md_key(d, v)) = FINAL}

\* C39: after a failure-free approve_document_version(doc, v) exactly one
\* version of doc is FINAL, namely v, also when several versions were FINAL
\* before the call: each of them is ARCHIVED afterwards.
C39_ApproveLeavesExactlyOneFinal ==
    (Returned("c1", "approve") /\ loc["c1"].result.kind = "ok")
    => /\ FinalAmong(store, "d1") = {loc["c1"].ver}
       /\ \A w \in FinalAmong(loc["c1"].snap, "d1") :
             stage_at(store, md_key("d1", w)) = ARCHIVED

(* ------ specification: approvals whose pointer write may fail --------- *)

a_update_pointer_fails_raising(c) ==
    /\ loc[c].pc = "a_pointer"
    /\ loc' = [loc EXCEPT ![c] =
         Raise([Called(loc[c]) EXCEPT !.err = "S3OperationError"], "S3OperationError")]
    /\ UNCHANGED <<store, cache, hit_count, miss_count, now>>

\* _update_current_version_pointer: put_object_content raises; the except
\* clause logs a warning and returns, and approve_document_version goes on
\* to invalidate the cache
a_update_pointer_fails(c) ==
    /\ loc[c].pc = "a_pointer"
    /\ loc' = [loc EXCEPT ![c] =
         [Called(loc[c]) EXCEPT !.err = "S3OperationError", !.pc = "a_invalidate"]]
    /\ UNCHANGED <<store, cache, hit_count, miss_count, now>>

\* complete versions of which at most one is FINAL, a pointer that earlier
\* approvals have left (none, or naming any version), with or without
\* cached content
InitPointerFail ==
    /\ \E stages \in [Versions -> {"absent", DRAFT, FINAL, ARCHIVED}],
          ptr \in {NoVersion} \cup Versions :
         /\ Cardinality({v \in Versions : stages[v] = FINAL}) <= 1
         /\ store = objects_of("d1", MaxVersion, stages,
                               [v \in Versions |-> stages[v] # "absent"])
                       @@ pointer_object("d1", ptr)
    /\ \E cached \in BOOLEAN :
         cache = IF cached
                 THEN cache_set(EmptyMap, make_key("content", "d1"),
                                [md |-> "A", json |-> "JA"], 0)
                 ELSE EmptyMap
    /\ hit_count = 0
    /\ miss_count = 0
    /\ now = 0
    /\ loc = [c \in Callers |-> IdleLoc]

\* caller c1 approves versions; between two calls of c1, caller c2 asks for
\* the current version
NextPointerFail ==
    \/ /\ loc["c2"].pc = "idle"
       /\ \/ ApproveSteps("c1")
          \/ a_update_pointer_fails("c1")
          \/ StateSteps("c1")
          \/ ListSteps("c1")
    \/ /\ loc["c1"].pc = "idle"
       /\ \/ StartGetCurrent("c2", "d1")
          \/ GetCurrentSteps("c2")
          \/ StateSteps("c2")
          \/ ListSteps("c2")

SpecPointerFail == InitPointerFail /\ [][NextPointerFail]_vars

\* the last call of caller c was an approval whose pointer write failed
PointerWriteFailed(c) ==
    /\ Returned(c, "approve")
    /\ loc[c].err # ""

\* the pointer object of document d in st: its content, NoVersion without one
pointer_in(st, d) ==
    IF pointer_key(d) \in DOMAIN st THEN st[pointer_key(d)].content ELSE NoVersion

\* C40: an approve_document_version(doc, v) whose pointer write fails
\* returns True with both artifacts of v FINAL and no cached content for
\* doc; the pointer is as the call found it, absent or naming the previous
\* version; and a get_current_document_version(doc) made afterwards returns
\* v.
C40_PointerFailureTolerated ==
    LET d == loc["c1"].doc
        v == loc["c1"].ver
    IN PointerWriteFailed("c1")
       => /\ loc["c1"].result = Ok
          /\ stage_at(store, md_key(d, v)) = FINAL
          /\ stage_at(store, json_key(d, v)) = FINAL
          /\ make_key("content", d) \notin DOMAIN cache
          /\ pointer_in(store, d) = pointer_in(loc["c1"].snap, d)
          /\ (Returned("c2", "getcur") /\ loc["c2"].snap = store)
                => loc["c2"].result = OkVersion(v)

\* the approval of version 2 could not write the pointer, which still names
\* the archived version 1 while content of version 1 was cached before; the
\* reader is given version 2
C40_Witness ==
    /\ PointerWriteFailed("c1")
    /\ loc["c1"].ver = 2
    /\ pointer_in(store, "d1") = 1
    /\ stage_at(store, md_key("d1", 1)) = ARCHIVED
    /\ make_key("content", "d1") \in DOMAIN loc["c1"].snapCache
    /\ Returned("c2", "getcur")
    /\ loc["c2"].snap = store
    /\ loc["c2"].result = OkVersion(2)

====
